---- MODULE Spec2Model ----
(***************************************************************************)
(* Test-fixture consistency validator of the TA test repository            *)
(* (src/evaluate_data_consistency.py): the identifier deriver               *)
(* (java_string_hashcode / generate_acc_id), the per-case analyzer          *)
(* (TestCaseAnalyzer) and the batch loop (analyze_all).                     *)
(*                                                                          *)
(* Python strings are TLA+ strings; Python ints that may leave the 31-bit   *)
(* range are kept as pairs <<hi, lo>> of 16-bit limbs, so that the 32-bit   *)
(* wrap of the hash is computed, not assumed.                               *)
(***************************************************************************)
EXTENDS Integers, Sequences, FiniteSets, TLC

VARIABLES
    \* ---- identifier deriver (one call of generate_acc_id) ----
    id_no,          \* the argument s of java_string_hashcode
    hpos,           \* number of characters of s already folded by the for loop
    h,              \* the accumulator h, an unsigned 32-bit word <<hi, lo>>
    hash_pc,        \* "idle" | "loop" | "done"
    acc_id,         \* the value returned by generate_acc_id ("" before the return)
    calls,          \* the calls of generate_acc_id that returned: <<argument, value>>
    \* ---- the fields of the TestCaseAnalyzer at hand ----
    case_id, meta, accounts, holdings, new_accounts,
    total_txns, invalid_acc_refs, invalid_holding_refs, insufficient_shares,
    is_negative_case,
    \* ---- the scans of the distributor inbox ----
    inbox_exists,        \* os.path.exists(inbox) for the case at hand
    acc_rows,            \* records the readers of the running process_new_accounts
                         \* yielded so far (SpecCase)
    trade_rows,          \* records the readers of the running validate_trades
                         \* yielded so far (SpecCase)
    all_valid_accounts,  \* the local of validate_trades
    \* ---- analyze_all ----
    pc,             \* position of the run
    num_cases,      \* number of TC_* directories the globs discovered
    processed,      \* number of case rows printed so far
    tp, tn, fp, fn,
    state, intent, verdict,   \* locals of the loop body
    results,        \* the list results
    out_total,      \* the "Total Cases" number of the summary, -1 before it is printed
    \* ---- the fixture tree and what two runs over it print ----
    tree,           \* the TC_* directories of the batch, in the order of sorted(glob)
    run,            \* 1 during the first run of analyze_all, 2 during the second
    report,         \* what the run at hand has printed: [rows, summary, traceback]
    prev_report,    \* what the first run printed
    \* ---- verify_all (src/verify_cases.py) ----
    verify_pc,      \* position of verify_all
    test_cases,     \* len(test_cases)
    case_index,     \* the i of enumerate(test_cases)
    verify_results, \* the list results of verify_all
    status,         \* the local status
    polls,          \* iterations of "for _ in range(30)" begun for the case at hand
    container_up,   \* whether a container named ta is running
    stopped,        \* the cases for which "docker stop ta" was run
    summary_out     \* the numbers of the last line printed: <<Total, Passed, Stuck>>

hash_vars == <<id_no, hpos, h, hash_pc, acc_id, calls>>

self_vars == <<case_id, meta, accounts, holdings, new_accounts, total_txns,
               invalid_acc_refs, invalid_holding_refs, insufficient_shares,
               is_negative_case>>

scan_vars == <<inbox_exists, acc_rows, trade_rows, all_valid_accounts>>

batch_vars == <<num_cases, processed, tp, tn, fp, fn, state, intent, verdict,
                results, out_total>>

rerun_vars == <<tree, run, report, prev_report>>

verify_vars == <<verify_pc, test_cases, case_index, verify_results, status, polls,
                 container_up, stopped, summary_out>>

vars == <<pc, hash_vars, self_vars, scan_vars, batch_vars, rerun_vars, verify_vars>>

-----------------------------------------------------------------------------
(* Bounds of the model *)

\* longest identity-document string enumerated over IdAlphabet
MaxIdLen == 7

\* most TC_* directories of a run
MaxCases == 2

\* most account-opening records, and most transaction records, of the case
\* that is analysed a record at a time
MaxAccRows == 2
MaxTradeRows == 2

\* most records of either kind of a case of a batch run
MaxBatchRows == 1

-----------------------------------------------------------------------------
(* Characters *)

\* the printable ASCII characters in code-point order, without the double quote
\* (34), the backslash (92) and the backquote (96): 32..33, 35..91, 93..95, 97..126
AsciiLow == " !"
AsciiMid == "#$%&'()*+,-./0123456789:;<=>?@ABCDEFGHIJKLMNOPQRSTUVWXYZ["
AsciiHigh == "]^_"
AsciiLower == "abcdefghijklmnopqrstuvwxyz{|}~"

CharAt(str, i) == SubSeq(str, i, i)

\* the position of character c in str, 0 when it does not occur
IndexOf(str, c) ==
    LET at == {i \in 1..Len(str) : CharAt(str, i) = c}
    IN  IF at = {} THEN 0 ELSE CHOOSE i \in at : TRUE

CharsOf(str) == {CharAt(str, i) : i \in 1..Len(str)}

\* the code point of each printable ASCII character
CodePoint ==
    [c \in CharsOf(AsciiLow) \cup CharsOf(AsciiMid) \cup CharsOf(AsciiHigh) \cup CharsOf(AsciiLower) |->
        IF IndexOf(AsciiMid, c) > 0 THEN 34 + IndexOf(AsciiMid, c)
        ELSE IF IndexOf(AsciiHigh, c) > 0 THEN 92 + IndexOf(AsciiHigh, c)
        ELSE IF IndexOf(AsciiLower, c) > 0 THEN 96 + IndexOf(AsciiLower, c)
        ELSE 31 + IndexOf(AsciiLow, c)]

\* ord(c) for a printable ASCII character
Ord(c) == CodePoint[c]

\* the value of each decimal digit
DigitValue == [c \in CharsOf("0123456789") |-> IndexOf("0123456789", c) - 1]

\* the upper-case letter of each lower-case letter
UpperCase ==
    [c \in CharsOf("abcdefghijklmnopqrstuvwxyz") |->
        CharAt("ABCDEFGHIJKLMNOPQRSTUVWXYZ", IndexOf("abcdefghijklmnopqrstuvwxyz", c))]

-----------------------------------------------------------------------------
(* Identifier deriver *)

Limb == 65536
HalfLimb == 32768

\* h = (31 * h + ord(c)) & 0xFFFFFFFF with only 31 bits kept: the mask of a
\* port that clears the sign bit while accumulating
HashFoldMask31(w, c) ==
    LET lo == 31 * w[2] + Ord(c)
        hi == 31 * w[1] + (lo \div Limb)
    IN  <<hi % HalfLimb, lo % Limb>>

\* the fold with a per-call salt mixed in, as the built-in hash() of a str has
\* per process: the number of calls made before is added to the code point
HashFoldSalted(w, c) ==
    LET lo == 31 * w[2] + Ord(c) + Len(calls)
        hi == 31 * w[1] + (lo \div Limb)
    IN  <<hi % Limb, lo % Limb>>

\* h = (31 * h + ord(c)) & 0xFFFFFFFF
HashFold(w, c) ==
    LET lo == 31 * w[2] + Ord(c)
        hi == 31 * w[1] + (lo \div Limb)
    IN  <<hi % Limb, lo % Limb>>

\* ((h + 0x80000000) & 0xFFFFFFFF) - 0x80000000, a Python int: sign and magnitude
ToSigned(w) ==
    LET u == <<(w[1] + HalfLimb) % Limb, w[2]>>
    IN  IF u[1] >= HalfLimb
        THEN [neg |-> FALSE, mag |-> <<u[1] - HalfLimb, u[2]>>]
        ELSE [neg |-> TRUE,
              mag |-> IF u[2] = 0 THEN <<HalfLimb - u[1], 0>>
                                  ELSE <<HalfLimb - 1 - u[1], Limb - u[2]>>]

\* abs(n)
PyAbs(n) == [neg |-> FALSE, mag |-> n.mag]

\* the decimal digits of a positive magnitude, most significant first
RECURSIVE DecDigits(_)
DecDigits(m) ==
    IF m = <<0, 0>> THEN ""
    ELSE LET t == (m[1] % 10) * Limb + m[2]
         IN  DecDigits(<<m[1] \div 10, t \div 10>>) \o CharAt("0123456789", (t % 10) + 1)

\* str(n) for a Python int
PyStr(n) ==
    IF n.mag = <<0, 0>> THEN "0"
    ELSE (IF n.neg THEN "-" ELSE "") \o DecDigits(n.mag)

\* the for loop of java_string_hashcode from position i with accumulator w
RECURSIVE HashLoop(_, _, _)
HashLoop(str, i, w) ==
    IF i > Len(str) THEN w
    ELSE HashLoop(str, i + 1, HashFold(w, CharAt(str, i)))

java_string_hashcode(str) == ToSigned(HashLoop(str, 1, <<0, 0>>))

generate_acc_id(str) == "TA" \o PyStr(PyAbs(java_string_hashcode(str)))

-----------------------------------------------------------------------------
(* Python values *)

\* the Python value None, as a string no text of a fixture equals
None == "<None>"

\* str(x) inside an f-string
Fmt(x) == IF x = None THEN "None" ELSE x

\* d.get(key, default) for a dict d (a function on its keys)
Get(d, key, default) == IF key \in DOMAIN d THEN d[key] ELSE default

\* d[key] = value for a dict d
Put(d, key, value) == [k \in DOMAIN d \cup {key} |-> IF k = key THEN value ELSE d[k]]

EmptyDict == [k \in {} |-> 0]

\* s.upper() for ASCII text
RECURSIVE Upper(_)
Upper(str) ==
    IF str = "" THEN ""
    ELSE LET c == CharAt(str, 1)
         IN  (IF c \in DOMAIN UpperCase THEN UpperCase[c] ELSE c) \o Upper(Tail(str))

\* k in s, for strings
Contains(str, k) ==
    \E i \in 1..(Len(str) - Len(k) + 1) : SubSeq(str, i, i + Len(k) - 1) = k

\* A float is kept exactly as num / 10^scale, with no trailing zero in the
\* fraction; the tokens of the model are short decimals, which float() maps to
\* distinct doubles in the same order.
RECURSIVE Canon(_)
Canon(x) ==
    IF x.scale > 0 /\ x.num % 10 = 0
    THEN Canon([num |-> x.num \div 10, scale |-> x.scale - 1])
    ELSE x

FloatZero == [num |-> 0, scale |-> 0]

RECURSIVE Pow10(_)
Pow10(n) == IF n = 0 THEN 1 ELSE 10 * Pow10(n - 1)

\* x < y for floats
FloatLess(x, y) == x.num * Pow10(y.scale) < y.num * Pow10(x.scale)

\* the digits and at most one point of an unsigned decimal literal, read from
\* position i: [ok, num, scale, digits, dot]
RECURSIVE ScanDecimal(_, _, _)
ScanDecimal(str, i, st) ==
    IF ~st.ok \/ i > Len(str) THEN st
    ELSE LET c == CharAt(str, i)
         IN  IF c \in DOMAIN DigitValue
             THEN ScanDecimal(str, i + 1,
                      [st EXCEPT !.num = 10 * st.num + DigitValue[c],
                                 !.scale = IF st.dot THEN st.scale + 1 ELSE st.scale,
                                 !.digits = st.digits + 1])
             ELSE IF c = "." /\ ~st.dot
             THEN ScanDecimal(str, i + 1, [st EXCEPT !.dot = TRUE])
             ELSE [st EXCEPT !.ok = FALSE]

\* float(x) for None or a text made of sign, digits and point: [ok, val];
\* ok = FALSE stands for the TypeError / ValueError float() raises
ParseFloat(x) ==
    IF x = None \/ x = "" THEN [ok |-> FALSE, val |-> FloatZero]
    ELSE LET sign == IF CharAt(x, 1) = "-" THEN -1 ELSE 1
             from == IF CharAt(x, 1) \in {"-", "+"} THEN 2 ELSE 1
             st   == ScanDecimal(x, from,
                         [ok |-> TRUE, num |-> 0, scale |-> 0, digits |-> 0, dot |-> FALSE])
         IN  IF st.ok /\ st.digits > 0
             THEN [ok |-> TRUE, val |-> Canon([num |-> sign * st.num, scale |-> st.scale])]
             ELSE [ok |-> FALSE, val |-> FloatZero]

-----------------------------------------------------------------------------
(* TestCaseAnalyzer: construction *)

\* A JSON file is [exists, well_formed, data]; the data of a snapshot file is a
\* sequence of entries [obj, val], val the dict of an entry that is an object.
\* The data of meta.json is one such entry.

\* _load_json: [raised, val]; json.load of a malformed file raises
_load_json(file) ==
    IF ~file.exists THEN [raised |-> FALSE, val |-> [obj |-> TRUE, val |-> EmptyDict]]
    ELSE IF ~file.well_formed THEN [raised |-> TRUE, val |-> [obj |-> TRUE, val |-> EmptyDict]]
    ELSE [raised |-> FALSE, val |-> file.data]

\* the for loop of _load_db_accounts from entry i; a.get on an entry that is
\* no object raises, and "except: pass" keeps what was added before
RECURSIVE AccountsLoop(_, _, _)
AccountsLoop(data, i, accs) ==
    IF i > Len(data) THEN accs
    ELSE IF ~data[i].obj THEN accs
    ELSE AccountsLoop(data, i + 1, accs \cup {Get(data[i].val, "accountId", None)})

_load_db_accounts(file) ==
    IF ~file.exists \/ ~file.well_formed THEN {}
    ELSE AccountsLoop(file.data, 1, {})

\* f"{h.get('accountId')}_{h.get('fundCode')}"
HoldingKey(acc, fund) == Fmt(acc) \o "_" \o Fmt(fund)

\* the for loop of _load_db_holdings from entry i
RECURSIVE HoldingsLoop(_, _, _)
HoldingsLoop(data, i, h_map) ==
    IF i > Len(data) THEN h_map
    ELSE IF ~data[i].obj THEN h_map
    ELSE LET e     == data[i].val
             key   == HoldingKey(Get(e, "accountId", None), Get(e, "fundCode", None))
             share == ParseFloat(Get(e, "availableShares", "0"))
         IN  IF ~share.ok THEN h_map
             ELSE HoldingsLoop(data, i + 1, Put(h_map, key, share.val))

_load_db_holdings(file) ==
    IF ~file.exists \/ ~file.well_formed THEN EmptyDict
    ELSE HoldingsLoop(file.data, 1, EmptyDict)

keywords ==
    {"REJECT", "FAIL", "NEGATIVE", "INSUFFICIENT", "DUPLICATE", "MISSING",
     "NOT_FOUND", "ABNORMAL", "CONFLICT", "CLOSED"}

AnyKeywordIn(str) == \E k \in keywords : Contains(str, k)

\* _determine_intent without the calls of upper()
_determine_intent_case_sensitive(id, m) ==
    IF AnyKeywordIn(id) THEN [raised |-> FALSE, val |-> TRUE]
    ELSE IF ~m.obj \/ Get(m.val, "description", "") = None
    THEN [raised |-> TRUE, val |-> FALSE]
    ELSE IF AnyKeywordIn(Get(m.val, "description", ""))
    THEN [raised |-> FALSE, val |-> TRUE]
    ELSE IF Get(m.val, "expected_keyword", "") = None
    THEN [raised |-> TRUE, val |-> FALSE]
    ELSE [raised |-> FALSE, val |-> AnyKeywordIn(Get(m.val, "expected_keyword", ""))]

\* _determine_intent: [raised, val]; .get on a meta that is no object and
\* .upper() on a field that is None raise AttributeError
_determine_intent(id, m) ==
    IF AnyKeywordIn(Upper(id)) THEN [raised |-> FALSE, val |-> TRUE]
    ELSE IF ~m.obj \/ Get(m.val, "description", "") = None
    THEN [raised |-> TRUE, val |-> FALSE]
    ELSE IF AnyKeywordIn(Upper(Get(m.val, "description", "")))
    THEN [raised |-> FALSE, val |-> TRUE]
    ELSE IF Get(m.val, "expected_keyword", "") = None
    THEN [raised |-> TRUE, val |-> FALSE]
    ELSE [raised |-> FALSE, val |-> AnyKeywordIn(Upper(Get(m.val, "expected_keyword", "")))]

\* __init__ with the three counters left at the values of the analyzer
\* before it, in place of lines 29-35
NewAnalyzerKeepsCounters(id, meta_file, accounts_file, holdings_file) ==
    LET m      == _load_json(meta_file)
        neg    == _determine_intent(id, m.val)
    IN  [raised |-> m.raised \/ neg.raised,
         self   |-> [case_id              |-> id,
                     meta                 |-> m.val,
                     accounts             |-> _load_db_accounts(accounts_file),
                     holdings             |-> _load_db_holdings(holdings_file),
                     new_accounts         |-> {},
                     total_txns           |-> total_txns,
                     invalid_acc_refs     |-> invalid_acc_refs,
                     invalid_holding_refs |-> invalid_holding_refs,
                     insufficient_shares  |-> insufficient_shares,
                     is_negative_case     |-> neg.val]]

\* TestCaseAnalyzer.__init__ on a case directory: [raised, self]
NewAnalyzer(id, meta_file, accounts_file, holdings_file) ==
    LET m      == _load_json(meta_file)
        neg    == _determine_intent(id, m.val)
    IN  [raised |-> m.raised \/ neg.raised,
         self   |-> [case_id              |-> id,
                     meta                 |-> m.val,
                     accounts             |-> _load_db_accounts(accounts_file),
                     holdings             |-> _load_db_holdings(holdings_file),
                     new_accounts         |-> {},
                     total_txns           |-> 0,
                     invalid_acc_refs     |-> 0,
                     invalid_holding_refs |-> 0,
                     insufficient_shares  |-> 0,
                     is_negative_case     |-> neg.val]]

-----------------------------------------------------------------------------
(* TestCaseAnalyzer: the two scans of the distributor inbox *)

\* process_new_accounts that skips a record without an investor name
NewAccountsRowNamed(new, row) ==
    IF Get(row, "biz_code", None) = "001" /\ Get(row, "investor_name", None) # ""
    THEN LET id == Get(row, "id_no", None)
         IN  IF id # None /\ id # "" THEN new \cup {generate_acc_id(id)} ELSE new
    ELSE new

\* process_new_accounts without the test of the business code
NewAccountsRowAnyCode(new, row) ==
    LET id == Get(row, "id_no", None)
    IN  IF id # None /\ id # "" THEN new \cup {generate_acc_id(id)} ELSE new

\* the body of "for row in reader" of process_new_accounts
NewAccountsRow(new, row) ==
    IF Get(row, "biz_code", None) = "001"
    THEN LET id == Get(row, "id_no", None)
         IN  IF id # None /\ id # "" THEN new \cup {generate_acc_id(id)} ELSE new
    ELSE new

\* an amount that fails closed: one share when float() raises
AmountOfFailClosed(row) ==
    LET f == ParseFloat(Get(row, "amount_or_shares", "0"))
    IN  IF f.ok THEN f.val ELSE [num |-> 1, scale |-> 0]

\* float(row.get("amount_or_shares", 0)), 0 when float() raises
AmountOf(row) ==
    LET f == ParseFloat(Get(row, "amount_or_shares", "0"))
    IN  IF f.ok THEN f.val ELSE FloatZero

\* Check 1 of validate_trades: the increment of invalid_acc_refs for a row
AccountCheck(row, valid) ==
    IF Get(row, "account_id", None) \notin valid THEN 1 ELSE 0

\* Check 2 with "available <= amount_or_shares"
HoldingCheckLe(row, h_map) ==
    IF Get(row, "type", None) = "REDEEM"
    THEN LET key       == HoldingKey(Get(row, "account_id", None), Get(row, "fund_code", None))
             available == Get(h_map, key, FloatZero)
             amount    == ParseFloat(Get(row, "amount_or_shares", "0"))
             requested == IF amount.ok THEN amount.val ELSE FloatZero
         IN  IF ~FloatLess(requested, available) THEN 1 ELSE 0
    ELSE 0

\* Check 2 applied to the records of every type
HoldingCheckAnyType(row, h_map) ==
    LET key       == HoldingKey(Get(row, "account_id", None), Get(row, "fund_code", None))
        available == Get(h_map, key, FloatZero)
        amount    == ParseFloat(Get(row, "amount_or_shares", "0"))
        requested == IF amount.ok THEN amount.val ELSE FloatZero
    IN  IF FloatLess(available, requested) THEN 1 ELSE 0

\* Check 2 of validate_trades: the increment of insufficient_shares for a row
HoldingCheck(row, h_map) ==
    IF Get(row, "type", None) = "REDEEM"
    THEN LET key       == HoldingKey(Get(row, "account_id", None), Get(row, "fund_code", None))
             available == Get(h_map, key, FloatZero)
         IN  IF FloatLess(available, AmountOf(row)) THEN 1 ELSE 0
    ELSE 0

\* the body of the loop with "total_txns += 1" under the account check
TradeRowCountsValidOnly(c, row, valid, h_map) ==
    [total_txns          |-> c.total_txns + (1 - AccountCheck(row, valid)),
     invalid_acc_refs    |-> c.invalid_acc_refs + AccountCheck(row, valid),
     insufficient_shares |-> c.insufficient_shares + HoldingCheck(row, h_map)]

\* the body of the loop with Check 2 skipped for a record that failed Check 1
TradeRowSkipsHoldingOnBrokenLink(c, row, valid, h_map) ==
    [total_txns          |-> c.total_txns + 1,
     invalid_acc_refs    |-> c.invalid_acc_refs + AccountCheck(row, valid),
     insufficient_shares |-> c.insufficient_shares +
                                 (IF AccountCheck(row, valid) = 1 THEN 0
                                  ELSE HoldingCheck(row, h_map))]

\* the body of "for row in reader" of validate_trades on the three counters
TradeRow(c, row, valid, h_map) ==
    [total_txns          |-> c.total_txns + 1,
     invalid_acc_refs    |-> c.invalid_acc_refs + AccountCheck(row, valid),
     insufficient_shares |-> c.insufficient_shares + HoldingCheck(row, h_map)]

\* get_consistency_status with the two tests in the other order
get_consistency_status_holdings_first(invalid, insufficient) ==
    IF insufficient > 0 THEN "INSUFFICIENT_HOLDING"
    ELSE IF invalid > 0 THEN "BROKEN_LINK_ACC"
    ELSE "CONSISTENT"

\* get_consistency_status
get_consistency_status(invalid, insufficient) ==
    IF invalid > 0 THEN "BROKEN_LINK_ACC"
    ELSE IF insufficient > 0 THEN "INSUFFICIENT_HOLDING"
    ELSE "CONSISTENT"

-----------------------------------------------------------------------------
(* Fixtures *)

IdAlphabet == {"0", "1", "X"}

RECURSIVE StringsUpTo(_, _)
StringsUpTo(alphabet, n) ==
    IF n = 0 THEN {""}
    ELSE LET shorter == StringsUpTo(alphabet, n - 1)
         IN  shorter \cup {str \o c : str \in shorter, c \in alphabet}

\* the sample identity number of the interface specification, and two strings
\* whose Java hash code is the signed minimum
GoldenIdNo == "110101198001010000"
MinHashIdNos == {"GydZG_", "polygenelubricants"}

IdNoSet == StringsUpTo(IdAlphabet, MaxIdLen) \cup {GoldenIdNo} \cup MinHashIdNos

SeqsUpTo(S, n) == UNION {[1..k -> S] : k \in 0..n}

\* an account of the snapshot, an identity number of an opening request, an
\* account nobody opened, a fund
SnapAcc == "TA10001"
OtherIdNo == "320101199901011111"
BadAcc == "TA_INVALID_999"
Fund == "FUND01"

CaseIdSet == {"TC_001_PURCHASE", "TC_002_insufficient_redeem"}

JsonObject(d) == [obj |-> TRUE, val |-> d]
JsonScalar == [obj |-> FALSE, val |-> EmptyDict]

MissingFile(d) == [exists |-> FALSE, well_formed |-> TRUE, data |-> d]
MalformedFile(d) == [exists |-> TRUE, well_formed |-> FALSE, data |-> d]
JsonFile(d) == [exists |-> TRUE, well_formed |-> TRUE, data |-> d]

MetaFileSet ==
    {MissingFile(JsonObject(EmptyDict)),
     MalformedFile(JsonObject(EmptyDict)),
     JsonFile(JsonObject([description |-> "Normal purchase", expected_keyword |-> "rejected"])),
     JsonFile(JsonObject([description |-> "Duplicate request", expected_keyword |-> "OK"])),
     JsonFile(JsonObject([description |-> None, expected_keyword |-> "OK"]))}

AccountEntry(a) == JsonObject([accountId |-> a])
HoldingEntry(a, f, s) == JsonObject([accountId |-> a, fundCode |-> f, availableShares |-> s])

\* db_snapshot: Accounts.json and Holdings.json
SnapshotSet ==
    {[accounts_file |-> MissingFile(<<>>), holdings_file |-> MissingFile(<<>>)],
     [accounts_file |-> MalformedFile(<<>>), holdings_file |-> MalformedFile(<<>>)],
     [accounts_file |-> JsonFile(<<AccountEntry(SnapAcc)>>),
      holdings_file |-> MissingFile(<<>>)],
     [accounts_file |-> JsonFile(<<AccountEntry(SnapAcc)>>),
      holdings_file |-> JsonFile(<<HoldingEntry(SnapAcc, Fund, "500.00")>>)],
     [accounts_file |-> JsonFile(<<AccountEntry(SnapAcc)>>),
      holdings_file |-> JsonFile(<<HoldingEntry(SnapAcc, Fund, "-5.00")>>)],
     [accounts_file |-> JsonFile(<<AccountEntry(SnapAcc), JsonScalar, AccountEntry(BadAcc)>>),
      holdings_file |-> JsonFile(<<HoldingEntry(SnapAcc, Fund, "500.00"),
                                   HoldingEntry(SnapAcc, Fund, "n/a")>>)]}

\* the records of the DIST_A_ACC*.csv files, in the order they are read
AccRowSet ==
    {[request_no |-> "REQ001", biz_code |-> "001", investor_name |-> "NewUser", id_no |-> GoldenIdNo],
     [request_no |-> "REQ002", biz_code |-> "001", investor_name |-> "", id_no |-> OtherIdNo],
     [request_no |-> "REQ003", biz_code |-> "002", investor_name |-> "NewUser", id_no |-> GoldenIdNo],
     [request_no |-> "REQ004", biz_code |-> "001", investor_name |-> "NoId", id_no |-> ""],
     [request_no |-> "REQ005", biz_code |-> "001", investor_name |-> "Short", id_no |-> None]}

TradeAccSet == {SnapAcc, generate_acc_id(GoldenIdNo), BadAcc}

TypeAmountSet ==
    {<<"PURCHASE", "1000.00">>, <<"PURCHASE", "abc">>,
     <<"REDEEM", "1000.00">>, <<"REDEEM", "500.00">>, <<"REDEEM", "abc">>}

\* the records of the DIST_A_TRADE*.csv files, in the order they are read; the
\* last three: a type in lower case, an empty amount, and a record of a file
\* whose header has no amount_or_shares column
TradeRowSet ==
    {[trans_id |-> "TX_001", fund_code |-> Fund, type |-> ta[1],
      amount_or_shares |-> ta[2], account_id |-> a] : a \in TradeAccSet, ta \in TypeAmountSet}
    \cup {[trans_id |-> "TX_002", fund_code |-> Fund, type |-> "redeem",
           amount_or_shares |-> "1000.00", account_id |-> SnapAcc],
          [trans_id |-> "TX_003", fund_code |-> Fund, type |-> "REDEEM",
           amount_or_shares |-> "", account_id |-> SnapAcc],
          [trans_id |-> "TX_004", fund_code |-> Fund, type |-> "REDEEM", account_id |-> SnapAcc]}

-----------------------------------------------------------------------------
(* States in which a part of the program is not running *)

HashIdle ==
    /\ id_no = ""
    /\ hpos = 0
    /\ h = <<0, 0>>
    /\ hash_pc = "idle"
    /\ acc_id = ""
    /\ calls = <<>>

NoAnalyzer ==
    /\ case_id = None
    /\ meta = JsonObject(EmptyDict)
    /\ accounts = {}
    /\ holdings = EmptyDict
    /\ new_accounts = {}
    /\ total_txns = 0
    /\ invalid_acc_refs = 0
    /\ invalid_holding_refs = 0
    /\ insufficient_shares = 0
    /\ is_negative_case = FALSE

NoScan ==
    /\ inbox_exists = FALSE
    /\ acc_rows = <<>>
    /\ trade_rows = <<>>
    /\ all_valid_accounts = {}

BatchStart ==
    /\ processed = 0
    /\ tp = 0 /\ tn = 0 /\ fp = 0 /\ fn = 0
    /\ state = "" /\ intent = "" /\ verdict = ""
    /\ results = <<>>
    /\ out_total = -1

\* nothing printed yet
EmptyReport == [rows |-> <<>>, summary |-> <<>>, traceback |-> FALSE]

NoRerun ==
    /\ tree = <<>>
    /\ run = 1
    /\ report = EmptyReport
    /\ prev_report = EmptyReport

\* verify_all is not running
NoVerify ==
    /\ verify_pc = "idle"
    /\ test_cases = 0
    /\ case_index = 0
    /\ verify_results = <<>>
    /\ status = ""
    /\ polls = 0
    /\ container_up = FALSE
    /\ stopped = {}
    /\ summary_out = <<>>

-----------------------------------------------------------------------------
(* One call generate_acc_id(id_no), a character of the loop at a time *)

HashInit ==
    /\ id_no \in IdNoSet
    /\ hpos = 0
    /\ h = <<0, 0>>
    /\ hash_pc = "loop"
    /\ acc_id = ""
    /\ calls = <<>>
    /\ pc = "idle"
    /\ num_cases = 0
    /\ NoAnalyzer /\ NoScan /\ BatchStart /\ NoRerun /\ NoVerify

\* one iteration of "for c in s"
HashChar ==
    /\ hash_pc = "loop"
    /\ hpos < Len(id_no)
    /\ h' = HashFold(h, CharAt(id_no, hpos + 1))
    /\ hpos' = hpos + 1
    /\ UNCHANGED <<rerun_vars, verify_vars, id_no, hash_pc, acc_id, calls, pc, self_vars, scan_vars,
                   batch_vars>>

\* the loop is exhausted: java_string_hashcode returns, generate_acc_id returns
HashReturn ==
    /\ hash_pc = "loop"
    /\ hpos = Len(id_no)
    /\ acc_id' = "TA" \o PyStr(PyAbs(ToSigned(h)))
    /\ calls' = Append(calls, <<id_no, "TA" \o PyStr(PyAbs(ToSigned(h)))>>)
    /\ hash_pc' = "done"
    /\ UNCHANGED <<rerun_vars, verify_vars, id_no, hpos, h, pc, self_vars, scan_vars,
                   batch_vars>>

HashNext == HashChar \/ HashReturn

SpecHash == HashInit /\ [][HashNext]_vars

-----------------------------------------------------------------------------
(* generate_acc_id called again and again, from one analyzer after another *)

\* most calls of generate_acc_id in a run
MaxCalls == 3

\* the identity documents of the calls: the sample of the interface
\* specification, that of the generator, the empty string, a short one
CallIdSet == {GoldenIdNo, OtherIdNo, "", "X1"}

CallsInit ==
    /\ id_no \in CallIdSet
    /\ hpos = 0
    /\ h = <<0, 0>>
    /\ hash_pc = "loop"
    /\ acc_id = ""
    /\ calls = <<>>
    /\ pc = "idle"
    /\ num_cases = 0
    /\ NoAnalyzer /\ NoScan /\ BatchStart /\ NoRerun /\ NoVerify

\* line 106 once more, for a record of the same or of another case: a new
\* frame of generate_acc_id and of java_string_hashcode
HashAgain ==
    /\ hash_pc = "done"
    /\ Len(calls) < MaxCalls
    /\ id_no' \in CallIdSet
    /\ case_id' \in CaseIdSet
    /\ hpos' = 0
    /\ h' = <<0, 0>>
    /\ acc_id' = ""
    /\ hash_pc' = "loop"
    /\ UNCHANGED <<rerun_vars, verify_vars, calls, pc, meta, accounts, holdings, new_accounts,
                   total_txns, invalid_acc_refs, invalid_holding_refs, insufficient_shares,
                   is_negative_case, scan_vars, batch_vars>>

CallsNext == HashChar \/ HashReturn \/ HashAgain

SpecCalls == CallsInit /\ [][CallsNext]_vars

-----------------------------------------------------------------------------
(* One TestCaseAnalyzer, a record of the inbox at a time *)

SetSelf(a) ==
    /\ case_id' = a.case_id
    /\ meta' = a.meta
    /\ accounts' = a.accounts
    /\ holdings' = a.holdings
    /\ new_accounts' = a.new_accounts
    /\ total_txns' = a.total_txns
    /\ invalid_acc_refs' = a.invalid_acc_refs
    /\ invalid_holding_refs' = a.invalid_holding_refs
    /\ insufficient_shares' = a.insufficient_shares
    /\ is_negative_case' = a.is_negative_case

\* line 113 evaluated before the last opening was added to new_accounts
AllValidAccountsMissesOne(accs, new) ==
    IF new = {} THEN accs ELSE accs \cup (new \ {CHOOSE x \in new : TRUE})

\* line 113 without the accounts opened the same day
AllValidAccountsSnapshotOnly(accs, new) == accs

\* line 113 without the snapshot
AllValidAccountsNewOnly(accs, new) == new

\* line 113
AllValidAccounts(accs, new) == accs \cup new

\* the analyzer as __init__ leaves it, for a case whose construction does not raise
CaseInit ==
    /\ \E id \in CaseIdSet, mf \in MetaFileSet, snap \in SnapshotSet :
         LET a == NewAnalyzer(id, mf, snap.accounts_file, snap.holdings_file)
         IN  /\ ~a.raised
             /\ case_id = a.self.case_id
             /\ meta = a.self.meta
             /\ accounts = a.self.accounts
             /\ holdings = a.self.holdings
             /\ new_accounts = a.self.new_accounts
             /\ total_txns = a.self.total_txns
             /\ invalid_acc_refs = a.self.invalid_acc_refs
             /\ invalid_holding_refs = a.self.invalid_holding_refs
             /\ insufficient_shares = a.self.insufficient_shares
             /\ is_negative_case = a.self.is_negative_case
    /\ inbox_exists \in BOOLEAN
    /\ acc_rows = <<>>
    /\ trade_rows = <<>>
    /\ all_valid_accounts = {}
    /\ pc = "process_new_accounts"
    /\ num_cases = 1
    /\ BatchStart /\ NoRerun /\ NoVerify
    /\ HashIdle

\* process_new_accounts, line 96: no inbox, return
AccNoInbox ==
    /\ pc = "process_new_accounts"
    /\ ~inbox_exists
    /\ pc' = "validate_trades"
    /\ UNCHANGED <<rerun_vars, verify_vars, hash_vars, self_vars, scan_vars, batch_vars>>

\* process_new_accounts, lines 102-107: the next record of a DIST_A_ACC file
AccRead ==
    /\ pc = "process_new_accounts"
    /\ inbox_exists
    /\ Len(acc_rows) < MaxAccRows
    /\ \E row \in AccRowSet :
         /\ acc_rows' = Append(acc_rows, row)
         /\ new_accounts' = NewAccountsRow(new_accounts, row)
    /\ UNCHANGED <<rerun_vars, pc, verify_vars, hash_vars, case_id, meta, accounts, holdings, total_txns,
                   invalid_acc_refs, invalid_holding_refs, insufficient_shares,
                   is_negative_case, inbox_exists, trade_rows, all_valid_accounts,
                   batch_vars>>

\* process_new_accounts: the listing is exhausted, the last reader is closed
AccEnd ==
    /\ pc = "process_new_accounts"
    /\ inbox_exists
    /\ acc_rows' = <<>>
    /\ pc' = "validate_trades"
    /\ UNCHANGED <<rerun_vars, verify_vars, hash_vars, self_vars, inbox_exists, trade_rows, all_valid_accounts,
                   batch_vars>>

\* validate_trades, line 111: no inbox, return
TradeNoInbox ==
    /\ pc = "validate_trades"
    /\ ~inbox_exists
    /\ pc' = "status"
    /\ UNCHANGED <<rerun_vars, verify_vars, hash_vars, self_vars, scan_vars, batch_vars>>

\* validate_trades, line 113
TradeBegin ==
    /\ pc = "validate_trades"
    /\ inbox_exists
    /\ all_valid_accounts' = AllValidAccounts(accounts, new_accounts)
    /\ pc' = "trade_loop"
    /\ UNCHANGED <<rerun_vars, verify_vars, hash_vars, self_vars, inbox_exists, acc_rows, trade_rows, batch_vars>>

\* validate_trades, lines 119-144: the next record of a DIST_A_TRADE file
TradeRead ==
    /\ pc = "trade_loop"
    /\ Len(trade_rows) < MaxTradeRows
    /\ \E row \in TradeRowSet :
         LET c == TradeRow([total_txns |-> total_txns,
                            invalid_acc_refs |-> invalid_acc_refs,
                            insufficient_shares |-> insufficient_shares],
                           row, all_valid_accounts, holdings)
         IN  /\ trade_rows' = Append(trade_rows, row)
             /\ total_txns' = c.total_txns
             /\ invalid_acc_refs' = c.invalid_acc_refs
             /\ insufficient_shares' = c.insufficient_shares
    /\ UNCHANGED <<rerun_vars, pc, verify_vars, hash_vars, case_id, meta, accounts, holdings, new_accounts,
                   invalid_holding_refs, is_negative_case, inbox_exists, acc_rows,
                   all_valid_accounts, batch_vars>>

\* validate_trades: the listing is exhausted, the last reader is closed
TradeEnd ==
    /\ pc = "trade_loop"
    /\ trade_rows' = <<>>
    /\ pc' = "status"
    /\ UNCHANGED <<rerun_vars, verify_vars, hash_vars, self_vars, inbox_exists, acc_rows, all_valid_accounts,
                   batch_vars>>

\* line 177
Status ==
    /\ pc = "status"
    /\ state' = get_consistency_status(invalid_acc_refs, insufficient_shares)
    /\ pc' = "done"
    /\ UNCHANGED <<rerun_vars, verify_vars, hash_vars, self_vars, scan_vars, num_cases, processed, tp, tn, fp, fn,
                   intent, verdict, results, out_total>>

CaseNext ==
    \/ AccNoInbox \/ AccRead \/ AccEnd
    \/ TradeNoInbox \/ TradeBegin \/ TradeRead \/ TradeEnd
    \/ Status

SpecCase == CaseInit /\ [][CaseNext]_vars

-----------------------------------------------------------------------------
(* analyze_all: a batch run, a call of the analyzer at a time *)

\* process_new_accounts over the records of the listing
RECURSIVE NewAccountsScan(_, _, _)
NewAccountsScan(rows, i, new) ==
    IF i > Len(rows) THEN new
    ELSE NewAccountsScan(rows, i + 1, NewAccountsRow(new, rows[i]))

\* a validator that reports a broken link when it read no record at all
RECURSIVE TradeScanEmptyIsBroken(_, _, _, _, _)
TradeScanEmptyIsBroken(rows, i, c, valid, h_map) ==
    IF rows = <<>> THEN [c EXCEPT !.invalid_acc_refs = 1]
    ELSE IF i > Len(rows) THEN c
    ELSE TradeScanEmptyIsBroken(rows, i + 1, TradeRow(c, rows[i], valid, h_map), valid, h_map)

\* the loops of validate_trades over the records of the listing
RECURSIVE TradeScan(_, _, _, _, _)
TradeScan(rows, i, c, valid, h_map) ==
    IF i > Len(rows) THEN c
    ELSE TradeScan(rows, i + 1, TradeRow(c, rows[i], valid, h_map), valid, h_map)

\* lines 180-197 with the two branches of a negative case exchanged
TallyNegSwapped(c, int, st) ==
    IF int = "POS"
    THEN IF st = "CONSISTENT"
         THEN [c EXCEPT !.verdict = "OK (True Pos)", !.tp = c.tp + 1]
         ELSE [c EXCEPT !.verdict = "FAIL (False Neg)", !.fn = c.fn + 1]
    ELSE IF st = "CONSISTENT"
         THEN [c EXCEPT !.verdict = "OK (True Neg)", !.tn = c.tn + 1]
         ELSE [c EXCEPT !.verdict = "WARN (False Pos)", !.fp = c.fp + 1]

\* lines 180-197 without "fn += 1"
TallyNoFn(c, int, st) ==
    IF int = "POS"
    THEN IF st = "CONSISTENT"
         THEN [c EXCEPT !.verdict = "OK (True Pos)", !.tp = c.tp + 1]
         ELSE [c EXCEPT !.verdict = "FAIL (False Neg)"]
    ELSE IF st # "CONSISTENT"
         THEN [c EXCEPT !.verdict = "OK (True Neg)", !.tn = c.tn + 1]
         ELSE [c EXCEPT !.verdict = "WARN (False Pos)", !.fp = c.fp + 1]

\* lines 180-197: the verdict and the class counters after it
Tally(c, int, st) ==
    IF int = "POS"
    THEN IF st = "CONSISTENT"
         THEN [c EXCEPT !.verdict = "OK (True Pos)", !.tp = c.tp + 1]
         ELSE [c EXCEPT !.verdict = "FAIL (False Neg)", !.fn = c.fn + 1]
    ELSE IF st # "CONSISTENT"
         THEN [c EXCEPT !.verdict = "OK (True Neg)", !.tn = c.tn + 1]
         ELSE [c EXCEPT !.verdict = "WARN (False Pos)", !.fp = c.fp + 1]

Init ==
    /\ pc = "loop"
    /\ num_cases \in 0..MaxCases
    /\ NoAnalyzer /\ NoScan /\ BatchStart /\ NoRerun /\ NoVerify
    /\ HashIdle

\* line 173: the next TC_* directory, TestCaseAnalyzer(batch_path, case_id); an
\* exception of __init__ ends the run
StartCase ==
    /\ pc = "loop"
    /\ processed < num_cases
    /\ \E id \in CaseIdSet, mf \in MetaFileSet, snap \in SnapshotSet :
         LET a == NewAnalyzer(id, mf, snap.accounts_file, snap.holdings_file)
         IN  IF a.raised
             THEN /\ pc' = "raised"
                  /\ UNCHANGED <<self_vars, scan_vars>>
             ELSE /\ pc' = "process_new_accounts"
                  /\ SetSelf(a.self)
                  /\ inbox_exists' \in BOOLEAN
                  /\ acc_rows' = <<>>
                  /\ trade_rows' = <<>>
                  /\ all_valid_accounts' = {}
    /\ UNCHANGED <<rerun_vars, verify_vars, hash_vars, batch_vars>>

\* line 174: analyzer.process_new_accounts()
process_new_accounts ==
    /\ pc = "process_new_accounts"
    /\ IF inbox_exists
       THEN \E rows \in SeqsUpTo(AccRowSet, MaxBatchRows) :
                new_accounts' = NewAccountsScan(rows, 1, new_accounts)
       ELSE UNCHANGED new_accounts
    /\ pc' = "validate_trades"
    /\ UNCHANGED <<rerun_vars, verify_vars, hash_vars, case_id, meta, accounts, holdings, total_txns,
                   invalid_acc_refs, invalid_holding_refs, insufficient_shares,
                   is_negative_case, scan_vars, batch_vars>>

\* line 175: analyzer.validate_trades()
validate_trades ==
    /\ pc = "validate_trades"
    /\ IF inbox_exists
       THEN \E rows \in SeqsUpTo(TradeRowSet, MaxBatchRows) :
                LET c == TradeScan(rows, 1,
                                   [total_txns |-> total_txns,
                                    invalid_acc_refs |-> invalid_acc_refs,
                                    insufficient_shares |-> insufficient_shares],
                                   AllValidAccounts(accounts, new_accounts), holdings)
                IN  /\ total_txns' = c.total_txns
                    /\ invalid_acc_refs' = c.invalid_acc_refs
                    /\ insufficient_shares' = c.insufficient_shares
       ELSE UNCHANGED <<total_txns, invalid_acc_refs, insufficient_shares>>
    /\ pc' = "classify"
    /\ UNCHANGED <<rerun_vars, verify_vars, hash_vars, case_id, meta, accounts, holdings, new_accounts,
                   invalid_holding_refs, is_negative_case, scan_vars, batch_vars>>

\* lines 177-199: state, intent, verdict, the class counter, the printed row;
\* nothing reads the analyzer after its row is printed, and the next iteration
\* rebinds the name
Classify ==
    /\ pc = "classify"
    /\ LET st  == get_consistency_status(invalid_acc_refs, insufficient_shares)
           int == IF is_negative_case THEN "NEG" ELSE "POS"
           c   == Tally([tp |-> tp, tn |-> tn, fp |-> fp, fn |-> fn, verdict |-> ""],
                        int, st)
       IN  /\ state' = st
           /\ intent' = int
           /\ verdict' = c.verdict
           /\ tp' = c.tp /\ tn' = c.tn /\ fp' = c.fp /\ fn' = c.fn
    /\ processed' = processed + 1
    /\ pc' = "loop"
    /\ SetSelf([case_id |-> None, meta |-> JsonObject(EmptyDict), accounts |-> {},
                holdings |-> EmptyDict, new_accounts |-> {}, total_txns |-> 0,
                invalid_acc_refs |-> 0, invalid_holding_refs |-> 0,
                insufficient_shares |-> 0, is_negative_case |-> FALSE])
    /\ inbox_exists' = FALSE
    /\ acc_rows' = <<>>
    /\ trade_rows' = <<>>
    /\ all_valid_accounts' = {}
    /\ UNCHANGED <<rerun_vars, verify_vars, hash_vars, num_cases, results, out_total>>

\* lines 201-206: the summary after the last case
Summary ==
    /\ pc = "loop"
    /\ processed = num_cases
    /\ out_total' = tp + tn + fp + fn
    /\ pc' = "done"
    /\ UNCHANGED <<rerun_vars, verify_vars, hash_vars, self_vars, scan_vars, num_cases, processed, tp, tn, fp, fn,
                   state, intent, verdict, results>>

Next == StartCase \/ process_new_accounts \/ validate_trades \/ Classify \/ Summary

Spec == Init /\ [][Next]_vars

-----------------------------------------------------------------------------
(* The fixture tree *)

\* A file of the tree is [exists, well_formed, data]: the data of a .json file
\* as above, the data of a .csv file the records csv.DictReader yields. A case
\* directory is [case_id, meta_file, accounts_file, holdings_file,
\* inbox_exists, inbox], inbox the files of input_files/inbox/distributor by name.

\* s.startswith(p), s.endswith(p)
StartsWith(str, p) == Len(str) >= Len(p) /\ SubSeq(str, 1, Len(p)) = p
EndsWith(str, p) == Len(str) >= Len(p) /\ SubSeq(str, Len(str) - Len(p) + 1, Len(str)) = p

\* line 99
IsAccFile(fname) == StartsWith(fname, "DIST_A_ACC") /\ EndsWith(fname, ".csv")

\* line 116
IsTradeFile(fname) == StartsWith(fname, "DIST_A_TRADE") /\ EndsWith(fname, ".csv")

\* the orders in which os.listdir may return the names of the inbox
Listings(inbox) ==
    {l \in [1..Cardinality(DOMAIN inbox) -> DOMAIN inbox] :
        \A i, j \in DOMAIN l : i # j => l[i] # l[j]}

\* the records process_new_accounts reads, in the order it reads them
RECURSIVE AccFileRows(_, _, _)
AccFileRows(inbox, listing, i) ==
    IF i > Len(listing) THEN <<>>
    ELSE (IF IsAccFile(listing[i]) THEN inbox[listing[i]].data ELSE <<>>)
             \o AccFileRows(inbox, listing, i + 1)

\* validate_trades with a break after the first trade file
RECURSIVE TradeFileRowsFirstOnly(_, _, _)
TradeFileRowsFirstOnly(inbox, listing, i) ==
    IF i > Len(listing) THEN <<>>
    ELSE IF IsTradeFile(listing[i]) THEN inbox[listing[i]].data
    ELSE TradeFileRowsFirstOnly(inbox, listing, i + 1)

\* the records validate_trades reads, in the order it reads them
RECURSIVE TradeFileRows(_, _, _)
TradeFileRows(inbox, listing, i) ==
    IF i > Len(listing) THEN <<>>
    ELSE (IF IsTradeFile(listing[i]) THEN inbox[listing[i]].data ELSE <<>>)
             \o TradeFileRows(inbox, listing, i + 1)

\* open(p, 'w'): the file is truncated
open_w(file) == [exists |-> TRUE, well_formed |-> FALSE, data |-> <<>>]

\* with open(p, 'r') as f, and the reads of f: the file afterwards
open_r(file) == file

\* line 174 on an analyzer, la the listing of the inbox: the analyzer afterwards
RunProcessNewAccounts(self, dir, la) ==
    IF dir.inbox_exists
    THEN [self EXCEPT !.new_accounts = NewAccountsScan(AccFileRows(dir.inbox, la, 1), 1, @)]
    ELSE self

\* the three counters of an analyzer set to those of c
WithCounters(self, c) ==
    [self EXCEPT !.total_txns = c.total_txns,
                 !.invalid_acc_refs = c.invalid_acc_refs,
                 !.insufficient_shares = c.insufficient_shares]

\* line 175 on an analyzer, lt the listing of the inbox: the analyzer afterwards
RunValidateTrades(self, dir, lt) ==
    IF dir.inbox_exists
    THEN WithCounters(self,
             TradeScan(TradeFileRows(dir.inbox, lt, 1), 1,
                       [total_txns          |-> self.total_txns,
                        invalid_acc_refs    |-> self.invalid_acc_refs,
                        insufficient_shares |-> self.insufficient_shares],
                       AllValidAccounts(self.accounts, self.new_accounts), self.holdings))
    ELSE self

\* lines 174-175 on what the construction of line 173 gave: [raised, self]
ScanInbox(a, dir, la, lt) ==
    IF a.raised THEN a
    ELSE [raised |-> FALSE,
          self   |-> RunValidateTrades(RunProcessNewAccounts(a.self, dir, la), dir, lt)]

\* lines 173-175 on a case directory, la and lt the listings of the two scans:
\* [raised, self]
AnalyzeCase(dir, la, lt) ==
    ScanInbox(NewAnalyzer(dir.case_id, dir.meta_file, dir.accounts_file, dir.holdings_file),
              dir, la, lt)

\* the file after the analyzer passed it: opened when the run reached it and
\* it exists
AfterRead(file, reached) == IF reached /\ file.exists THEN open_r(file) ELSE file

\* the files of the inbox after the two scans
InboxAfterScans(inbox, reached) ==
    [n \in DOMAIN inbox |-> AfterRead(inbox[n], reached /\ (IsAccFile(n) \/ IsTradeFile(n)))]

\* the case directory after lines 173-175: every file the analyzer opened went
\* through open(p, 'r'); json.load of a malformed meta.json raises before the
\* snapshot is opened, and an exception of __init__ before the inbox is listed
DirAfter(dir, meta_raised, init_raised) ==
    [dir EXCEPT !.meta_file = AfterRead(@, TRUE),
                !.accounts_file = AfterRead(@, ~meta_raised),
                !.holdings_file = AfterRead(@, ~meta_raised),
                !.inbox = InboxAfterScans(@, ~init_raised /\ dir.inbox_exists)]

DirAfterAnalysis(dir) ==
    DirAfter(dir, _load_json(dir.meta_file).raised,
             NewAnalyzer(dir.case_id, dir.meta_file, dir.accounts_file, dir.holdings_file).raised)

\* line 199: the columns of the row printed for a case
CaseRow(self, st, int, v) ==
    [case_id             |-> self.case_id,
     intent              |-> int,
     total_txns          |-> self.total_txns,
     invalid_acc_refs    |-> self.invalid_acc_refs,
     insufficient_shares |-> self.insufficient_shares,
     state               |-> st,
     verdict             |-> v]

\* lines 203-206: the four numbers of the summary
SummaryLines(c) == <<c.tp + c.tn + c.fp + c.fn, c.tp + c.tn, c.fn, c.fp>>

AccRecord(req, code, name, id) ==
    [request_no |-> req, biz_code |-> code, investor_name |-> name, id_no |-> id]

TradeRecord(tid, fund, type, amount, acc) ==
    [trans_id |-> tid, fund_code |-> fund, type |-> type, amount_or_shares |-> amount,
     account_id |-> acc]

AccFileName == "DIST_A_ACC_20250101.csv"
TradeFileName1 == "DIST_A_TRADE_FUND01_20250101.csv"
TradeFileName2 == "DIST_A_TRADE_FUND02_20250101.csv"

\* a .csv file with the records the reader yields
CsvFile(rows) == [exists |-> TRUE, well_formed |-> TRUE, data |-> rows]

NoInbox == [n \in {} |-> CsvFile(<<>>)]

\* the TC_* directories a batch may hold, in the order of sorted(): a happy
\* path with a trade file of an unknown account; a redemption of more than the
\* account holds; an empty case; a case whose snapshot cannot be read, with an
\* opening request and an empty trade file; a snapshot with a malformed later
\* entry; a case with names the scans do not select; a meta.json that is no JSON;
\* a redemption on a fund the account does not hold, next to an account whose
\* identifier and fund code join to the same text, and an opening request in
\* the file of another distributor
CaseDirs ==
    <<[case_id       |-> "TC_001_PURCHASE",
       meta_file     |-> JsonFile(JsonObject([description |-> "Normal purchase",
                                              expected_keyword |-> "SUCCESS"])),
       accounts_file |-> JsonFile(<<AccountEntry(SnapAcc)>>),
       holdings_file |-> JsonFile(<<HoldingEntry(SnapAcc, Fund, "500.00")>>),
       inbox_exists  |-> TRUE,
       inbox         |-> (AccFileName :> CsvFile(<<AccRecord("REQ001", "001", "NewUser", GoldenIdNo)>>))
                         @@ (TradeFileName1 :> CsvFile(<<TradeRecord("TX_001", Fund, "PURCHASE", "1000.00",
                                                                      generate_acc_id(GoldenIdNo))>>))
                         @@ (TradeFileName2 :> CsvFile(<<TradeRecord("TX_ERR", Fund, "PURCHASE", "1000.00",
                                                                      BadAcc)>>))],
      [case_id       |-> "TC_002_insufficient_redeem",
       meta_file     |-> MissingFile(JsonObject(EmptyDict)),
       accounts_file |-> JsonFile(<<AccountEntry(SnapAcc)>>),
       holdings_file |-> JsonFile(<<HoldingEntry(SnapAcc, Fund, "500.00")>>),
       inbox_exists  |-> TRUE,
       inbox         |-> (TradeFileName1 :> CsvFile(<<TradeRecord("TX_002", Fund, "REDEEM", "1000.00",
                                                                   SnapAcc)>>))],
      [case_id       |-> "TC_003_EMPTY",
       meta_file     |-> JsonFile(JsonObject(EmptyDict)),
       accounts_file |-> JsonFile(<<>>),
       holdings_file |-> JsonFile(<<>>),
       inbox_exists  |-> FALSE,
       inbox         |-> NoInbox],
      [case_id       |-> "TC_004_NO_TRADES",
       meta_file     |-> MissingFile(JsonObject(EmptyDict)),
       accounts_file |-> MalformedFile(<<>>),
       holdings_file |-> MissingFile(<<>>),
       inbox_exists  |-> TRUE,
       inbox         |-> (AccFileName :> CsvFile(<<AccRecord("REQ001", "001", "NewUser", OtherIdNo)>>))
                         @@ (TradeFileName1 :> CsvFile(<<>>))],
      [case_id       |-> "TC_005_REDEEM",
       meta_file     |-> JsonFile(JsonObject([description |-> "Normal redeem",
                                              expected_keyword |-> "SUCCESS"])),
       accounts_file |-> JsonFile(<<AccountEntry(SnapAcc), JsonScalar, AccountEntry(BadAcc)>>),
       holdings_file |-> JsonFile(<<HoldingEntry(SnapAcc, Fund, "500.00"),
                                    HoldingEntry(BadAcc, Fund, "n/a")>>),
       inbox_exists  |-> TRUE,
       inbox         |-> (TradeFileName1 :> CsvFile(<<TradeRecord("TX_002", Fund, "REDEEM", "500.00",
                                                                   SnapAcc)>>))],
      [case_id       |-> "TC_006_closed_account",
       meta_file     |-> JsonFile(JsonObject([description |-> None, expected_keyword |-> "OK"])),
       accounts_file |-> JsonFile(<<AccountEntry(SnapAcc)>>),
       holdings_file |-> MissingFile(<<>>),
       inbox_exists  |-> TRUE,
       inbox         |-> ("DIST_B_TRADE_FUND01_20250101.csv"
                              :> CsvFile(<<TradeRecord("TX_ERR", Fund, "PURCHASE", "1000.00", BadAcc)>>))
                         @@ ("DIST_A_TRADE_FUND01_20250101.txt"
                              :> CsvFile(<<TradeRecord("TX_ERR", Fund, "REDEEM", "1000.00", BadAcc)>>))],
      [case_id       |-> "TC_007_PURCHASE",
       meta_file     |-> MalformedFile(JsonObject(EmptyDict)),
       accounts_file |-> JsonFile(<<AccountEntry(SnapAcc)>>),
       holdings_file |-> JsonFile(<<>>),
       inbox_exists  |-> FALSE,
       inbox         |-> NoInbox],
      [case_id       |-> "TC_008_REDEEM",
       meta_file     |-> JsonFile(JsonObject([description |-> "Redeem all",
                                              expected_keyword |-> "OK"])),
       accounts_file |-> JsonFile(<<AccountEntry(SnapAcc), AccountEntry("TA10001_A")>>),
       holdings_file |-> JsonFile(<<HoldingEntry("TA10001_A", Fund, "1000.00")>>),
       inbox_exists  |-> TRUE,
       inbox         |-> [n \in {"DIST_B_ACC_20250101.csv", TradeFileName1} |->
                            IF n = TradeFileName1
                            THEN CsvFile(<<TradeRecord("TX_001", "A_FUND01", "REDEEM",
                                                       "1000.00", SnapAcc)>>)
                            ELSE CsvFile(<<AccRecord("REQ001", "001", "NewUser",
                                                     GoldenIdNo)>>)]]>>

\* the directories of CaseDirs at the positions of S, in order
RECURSIVE SubTree(_, _)
SubTree(S, i) ==
    IF i > Len(CaseDirs) THEN <<>>
    ELSE (IF i \in S THEN <<CaseDirs[i]>> ELSE <<>>) \o SubTree(S, i + 1)

\* most TC_* directories of the tree that is analysed twice
MaxTreeCases == 2

TreeSet ==
    {SubTree(S, 1) : S \in {T \in SUBSET (1..Len(CaseDirs)) : Cardinality(T) <= MaxTreeCases}}

-----------------------------------------------------------------------------
(* analyze_all run twice over one fixture tree, a case directory at a time *)

RerunInit ==
    /\ tree \in TreeSet
    /\ run = 1
    /\ report = EmptyReport
    /\ prev_report = EmptyReport
    /\ pc = "loop"
    /\ num_cases = Len(tree)
    /\ NoAnalyzer /\ NoScan /\ BatchStart /\ NoVerify
    /\ HashIdle

\* lines 177-199 for an analyzer and the class counters c: what the loop body
\* assigns and prints
LoopBodyTail(self, c, st, int) ==
    [tally |-> Tally(c, int, st),
     state |-> st,
     intent |-> int,
     row |-> CaseRow(self, st, int, Tally(c, int, st).verdict)]

\* the locals and the report after the row of an analyzer is printed
RowPrinted(self, b) ==
    /\ SetSelf(self)
    /\ state' = b.state
    /\ intent' = b.intent
    /\ verdict' = b.tally.verdict
    /\ tp' = b.tally.tp /\ tn' = b.tally.tn /\ fp' = b.tally.fp /\ fn' = b.tally.fn
    /\ processed' = processed + 1
    /\ report' = [report EXCEPT !.rows = Append(@, b.row)]
    /\ pc' = "loop"

\* lines 173-199 for a case directory and what lines 173-175 gave
CaseAnalysed(dir, a) ==
    IF a.raised
    THEN /\ pc' = "raised"
         /\ report' = [report EXCEPT !.traceback = TRUE]
         /\ UNCHANGED <<self_vars, inbox_exists, processed, tp, tn, fp, fn,
                        state, intent, verdict>>
    ELSE /\ inbox_exists' = dir.inbox_exists
         /\ RowPrinted(a.self,
                LoopBodyTail(a.self,
                    [tp |-> tp, tn |-> tn, fp |-> fp, fn |-> fn, verdict |-> ""],
                    get_consistency_status(a.self.invalid_acc_refs, a.self.insufficient_shares),
                    IF a.self.is_negative_case THEN "NEG" ELSE "POS"))

\* lines 170-199 for the next TC_* directory; os.listdir returns the names of
\* the inbox in any order, and need not return them twice in the same order
RerunCase ==
    /\ pc = "loop"
    /\ processed < Len(tree)
    /\ tree' = [tree EXCEPT ![processed + 1] = DirAfterAnalysis(@)]
    /\ \E la \in Listings(tree[processed + 1].inbox), lt \in Listings(tree[processed + 1].inbox) :
         CaseAnalysed(tree[processed + 1], AnalyzeCase(tree[processed + 1], la, lt))
    /\ UNCHANGED <<verify_vars, hash_vars, acc_rows, trade_rows, all_valid_accounts, num_cases,
                   results, out_total, run, prev_report>>

\* lines 201-206
RerunSummary ==
    /\ pc = "loop"
    /\ processed = Len(tree)
    /\ out_total' = tp + tn + fp + fn
    /\ report' = [report EXCEPT
                     !.summary = SummaryLines([tp |-> tp, tn |-> tn, fp |-> fp, fn |-> fn])]
    /\ pc' = "done"
    /\ UNCHANGED <<verify_vars, hash_vars, self_vars, scan_vars, num_cases, processed, tp, tn, fp, fn,
                   state, intent, verdict, results, tree, run, prev_report>>

\* the program is started once more: lines 158-166 of the second run
RerunAgain ==
    /\ pc \in {"done", "raised"}
    /\ run = 1
    /\ run' = 2
    /\ prev_report' = report
    /\ report' = EmptyReport
    /\ pc' = "loop"
    /\ processed' = 0
    /\ tp' = 0 /\ tn' = 0 /\ fp' = 0 /\ fn' = 0
    /\ state' = "" /\ intent' = "" /\ verdict' = ""
    /\ out_total' = -1
    /\ SetSelf([case_id |-> None, meta |-> JsonObject(EmptyDict), accounts |-> {},
                holdings |-> EmptyDict, new_accounts |-> {}, total_txns |-> 0,
                invalid_acc_refs |-> 0, invalid_holding_refs |-> 0,
                insufficient_shares |-> 0, is_negative_case |-> FALSE])
    /\ inbox_exists' = FALSE
    /\ UNCHANGED <<verify_vars, hash_vars, acc_rows, trade_rows, all_valid_accounts, num_cases,
                   results, tree>>

RerunNext == RerunCase \/ RerunSummary \/ RerunAgain

SpecRerun == RerunInit /\ [][RerunNext]_vars

-----------------------------------------------------------------------------
(* verify_all of src/verify_cases.py: every case is loaded, run, and polled *)
(* until its container is gone                                              *)

\* most test cases the glob of verify_all finds
MaxVerifyCases == 2

\* range(30): the polls of one case
MaxPolls == 30

VerifyStatuses == {"LOAD_ERROR", "RUN_ERROR", "PASS", "STUCK"}

\* results.append({"batch": batch_id, "case": case_id, "status": s}) for test case i
ResultOf(i, s) == [case |-> i, status |-> s]

VerifyInit ==
    /\ verify_pc = "load"
    /\ test_cases \in 0..MaxVerifyCases
    /\ case_index = 0
    /\ verify_results = <<>>
    /\ status = ""
    /\ polls = 0
    /\ container_up = FALSE
    /\ stopped = {}
    /\ summary_out = <<>>
    /\ pc = "idle"
    /\ num_cases = 0
    /\ NoAnalyzer /\ NoScan /\ BatchStart /\ NoRerun
    /\ HashIdle

\* lines 27-33: load_test_case.py returns 0, or CalledProcessError and continue
Load ==
    /\ verify_pc = "load"
    /\ case_index < test_cases
    /\ \E ok \in BOOLEAN :
         IF ok
         THEN /\ verify_pc' = "run"
              /\ UNCHANGED <<case_index, verify_results>>
         ELSE /\ verify_results' = Append(verify_results, ResultOf(case_index + 1, "LOAD_ERROR"))
              /\ case_index' = case_index + 1
              /\ verify_pc' = "load"
    /\ UNCHANGED <<pc, hash_vars, self_vars, scan_vars, batch_vars, rerun_vars, test_cases,
                   status, polls, container_up, stopped, summary_out>>

\* lines 36-46: run.sh returns 0 and status = "STUCK", or CalledProcessError
\* and continue; the container may be running afterwards or not
Run ==
    /\ verify_pc = "run"
    /\ container_up' \in BOOLEAN
    /\ \E ok \in BOOLEAN :
         IF ok
         THEN /\ status' = "STUCK"
              /\ polls' = 0
              /\ verify_pc' = "poll"
              /\ UNCHANGED <<case_index, verify_results>>
         ELSE /\ verify_results' = Append(verify_results, ResultOf(case_index + 1, "RUN_ERROR"))
              /\ case_index' = case_index + 1
              /\ verify_pc' = "load"
              /\ UNCHANGED <<status, polls>>
    /\ UNCHANGED <<pc, hash_vars, self_vars, scan_vars, batch_vars, rerun_vars, test_cases,
                   stopped, summary_out>>

\* lines 47-54, one iteration: docker ps shows no container named ta, PASS and
\* break; or it shows one, and the container may exit during sleep(1); the
\* loop is left after the iteration that exhausts range(30)
Poll ==
    /\ verify_pc = "poll"
    /\ polls < MaxPolls
    /\ polls' = polls + 1
    /\ IF ~container_up
       THEN /\ status' = "PASS"
            /\ verify_pc' = "polled"
            /\ UNCHANGED container_up
       ELSE /\ container_up' \in BOOLEAN
            /\ verify_pc' = IF polls + 1 = MaxPolls THEN "polled" ELSE "poll"
            /\ UNCHANGED status
    /\ UNCHANGED <<pc, hash_vars, self_vars, scan_vars, batch_vars, rerun_vars, test_cases,
                   case_index, verify_results, stopped, summary_out>>

\* lines 56-67: docker stop ta for a stuck case, and the result of the case
Record ==
    /\ verify_pc = "polled"
    /\ IF status = "STUCK"
       THEN /\ stopped' = stopped \cup {case_index + 1}
            /\ container_up' = FALSE
       ELSE UNCHANGED <<stopped, container_up>>
    /\ verify_results' = Append(verify_results, ResultOf(case_index + 1, status))
    /\ case_index' = case_index + 1
    /\ verify_pc' = "load"
    /\ UNCHANGED <<pc, hash_vars, self_vars, scan_vars, batch_vars, rerun_vars, test_cases,
                   status, polls, summary_out>>

\* stuck_count of line 78
StuckCount(res) == Cardinality({i \in DOMAIN res : res[i].status = "STUCK"})

\* line 80: Total, Passed, Stuck
SummaryLine(res) == <<Len(res), Len(res) - StuckCount(res), StuckCount(res)>>

\* lines 71-80: the loop is over, the table and the totals are printed
VerifySummary ==
    /\ verify_pc = "load"
    /\ case_index = test_cases
    /\ summary_out' = SummaryLine(verify_results)
    /\ verify_pc' = "done"
    /\ UNCHANGED <<pc, hash_vars, self_vars, scan_vars, batch_vars, rerun_vars, test_cases,
                   case_index, verify_results, status, polls, container_up, stopped>>

VerifyNext == Load \/ Run \/ Poll \/ Record \/ VerifySummary

SpecVerify == VerifyInit /\ [][VerifyNext]_vars

-----------------------------------------------------------------------------

(* Reference arithmetic for the identifier deriver: 32-bit words as four    *)
(* bytes, least significant first, and the hash as the polynomial           *)
(* sum of code(i) * 31^(n-i) modulo 2^32.                                   *)

ByteZero == <<0, 0, 0, 0>>

\* (w * k + a) mod 2^32 for small k and a
ByteMulAdd(w, k, a) ==
    LET t1 == w[1] * k + a
        t2 == w[2] * k + (t1 \div 256)
        t3 == w[3] * k + (t2 \div 256)
        t4 == w[4] * k + (t3 \div 256)
    IN  <<t1 % 256, t2 % 256, t3 % 256, t4 % 256>>

\* (v + w) mod 2^32
ByteAdd(v, w) ==
    LET t1 == v[1] + w[1]
        t2 == v[2] + w[2] + (t1 \div 256)
        t3 == v[3] + w[3] + (t2 \div 256)
        t4 == v[4] + w[4] + (t3 \div 256)
    IN  <<t1 % 256, t2 % 256, t3 % 256, t4 % 256>>

RECURSIVE BytePow31(_)
BytePow31(k) == IF k = 0 THEN <<1, 0, 0, 0>> ELSE ByteMulAdd(BytePow31(k - 1), 31, 0)

RECURSIVE RefHashFrom(_, _)
RefHashFrom(str, i) ==
    IF i > Len(str) THEN ByteZero
    ELSE ByteAdd(ByteMulAdd(BytePow31(Len(str) - i), Ord(CharAt(str, i)), 0),
                 RefHashFrom(str, i + 1))

RefHash(str) == RefHashFrom(str, 1)

\* |x| for the word read as a signed two's-complement integer x
RefAbs(w) ==
    IF w[4] < 128 THEN w
    ELSE ByteMulAdd(<<255 - w[1], 255 - w[2], 255 - w[3], 255 - w[4]>>, 1, 1)

\* the limb pair <<hi, lo>> as bytes
LimbsToBytes(w) == <<w[2] % 256, w[2] \div 256, w[1] % 256, w[1] \div 256>>

\* str is a decimal numeral without sign and without leading zeros
IsDecimalNumeral(str) ==
    /\ Len(str) >= 1
    /\ \A i \in 1..Len(str) : CharAt(str, i) \in DOMAIN DigitValue
    /\ Len(str) > 1 => CharAt(str, 1) # "0"

\* the value of the first n digits of a decimal numeral
RECURSIVE NumeralValue(_, _)
NumeralValue(str, n) ==
    IF n = 0 THEN ByteZero
    ELSE ByteMulAdd(NumeralValue(str, n - 1), 10, DigitValue[CharAt(str, n)])

\* C1: the identifier returned for s is "TA" followed by the decimal numeral
\* of |x|, x the signed 32-bit reading of the rolling hash H(s) = fold of
\* acc = (31*acc + code) mod 2^32; the accumulator is that hash of the prefix
\* read so far; the identifier of "110101198001010000" is TA1530933444.
C1_IdentifierIsTaAbsHash ==
    /\ LimbsToBytes(h) = RefHash(SubSeq(id_no, 1, hpos))
    /\ hash_pc = "done" =>
        LET digits == SubSeq(acc_id, 3, Len(acc_id))
        IN  /\ SubSeq(acc_id, 1, 2) = "TA"
            /\ IsDecimalNumeral(digits)
            /\ NumeralValue(digits, Len(digits)) = RefAbs(RefHash(id_no))
            /\ acc_id = generate_acc_id(id_no)
            /\ id_no = GoldenIdNo => acc_id = "TA1530933444"

C1_Witness ==
    /\ hash_pc = "done"
    /\ id_no = GoldenIdNo
    /\ acc_id = "TA1530933444"

-----------------------------------------------------------------------------
(* The consistency state and the verdict *)

\* C2: the consistency state follows the two counters in priority order:
\* BROKEN_LINK_ACC whenever invalid_acc_refs > 0, else INSUFFICIENT_HOLDING
\* whenever insufficient_shares > 0, else CONSISTENT; CONSISTENT if and only if
\* both counters are 0.
C2_StatePriorityOrder ==
    pc = "done" =>
        /\ invalid_acc_refs > 0 => state = "BROKEN_LINK_ACC"
        /\ (invalid_acc_refs = 0 /\ insufficient_shares > 0) => state = "INSUFFICIENT_HOLDING"
        /\ state = "CONSISTENT" <=> (invalid_acc_refs = 0 /\ insufficient_shares = 0)

C2_Witness ==
    /\ pc = "done"
    /\ invalid_acc_refs > 0
    /\ insufficient_shares > 0
    /\ state = "BROKEN_LINK_ACC"

\* the class the table of the verdict engine names
TableClass(negative, consistent) ==
    IF ~negative THEN (IF consistent THEN "TP" ELSE "FN")
    ELSE (IF consistent THEN "FP" ELSE "TN")

VerdictText(class) ==
    CASE class = "TP" -> "OK (True Pos)"
      [] class = "FN" -> "FAIL (False Neg)"
      [] class = "TN" -> "OK (True Neg)"
      [] class = "FP" -> "WARN (False Pos)"

\* C3: classifying a case increments exactly the class counter the table
\* names for (declared intent, consistency state) by one, leaves the other
\* three unchanged, and prints the verdict of that class.
C3_VerdictFollowsTable ==
    [][pc = "classify" =>
        LET class == TableClass(is_negative_case, state' = "CONSISTENT")
        IN  /\ intent' = (IF is_negative_case THEN "NEG" ELSE "POS")
            /\ verdict' = VerdictText(class)
            /\ tp' = tp + (IF class = "TP" THEN 1 ELSE 0)
            /\ fn' = fn + (IF class = "FN" THEN 1 ELSE 0)
            /\ tn' = tn + (IF class = "TN" THEN 1 ELSE 0)
            /\ fp' = fp + (IF class = "FP" THEN 1 ELSE 0)]_vars

\* a case declared negative with consistent data was counted FP
C3_Witness ==
    /\ pc = "loop"
    /\ processed = 1
    /\ intent = "NEG"
    /\ state = "CONSISTENT"
    /\ verdict = "WARN (False Pos)"
    /\ fp = 1 /\ tp = 0 /\ tn = 0 /\ fn = 0

\* C4: at every point of a run the four class counters sum to the number of
\* cases whose row was printed, and the total printed in the summary is the
\* number of discovered case directories.
C4_TotalsMatchCases ==
    /\ tp + tn + fp + fn = processed
    /\ pc = "done" => (out_total = num_cases /\ out_total = tp + tn + fp + fn)

C4_Witness ==
    /\ pc = "done"
    /\ num_cases = MaxCases
    /\ out_total = MaxCases
    /\ fn > 0

-----------------------------------------------------------------------------
(* The transaction validator, a record at a time *)

\* the closure of the case: snapshot accounts and accounts opened the same day
Closure == accounts \cup new_accounts

LastTrade == trade_rows[Len(trade_rows)]

\* validate_trades has just read one more record
TradeWasRead == pc = "trade_loop" /\ Len(trade_rows') = Len(trade_rows) + 1

\* C5: while and after the records are read, invalid_acc_refs is the number
\* of records read whose account is not in the closure (so a record with an
\* account of the closure adds 0 and every other record adds exactly 1).
C5_InvalidRefsCountsOffenders ==
    /\ pc = "trade_loop" =>
         invalid_acc_refs =
             Cardinality({i \in DOMAIN trade_rows : trade_rows[i].account_id \notin Closure})
    /\ (pc \in {"status", "done"} /\ ~inbox_exists) => invalid_acc_refs = 0

C5_Witness ==
    /\ pc = "trade_loop"
    /\ Len(trade_rows) = 2
    /\ trade_rows[1].account_id = BadAcc
    /\ trade_rows[2].account_id \in new_accounts
    /\ invalid_acc_refs = 1

\* shares in hundredths: of the amount texts of the fixtures, and of a balance
HundredthsOfText(x) ==
    CASE x = "1000.00" -> 100000
      [] x = "500.00" -> 50000
      [] OTHER -> 0

HundredthsOfBalance(b) ==
    CASE b.scale = 0 -> b.num * 100
      [] b.scale = 1 -> b.num * 10
      [] b.scale = 2 -> b.num

\* the balance at (account, fund) of the holdings table, zero without an entry
AvailableFor(row) ==
    LET found == {k \in DOMAIN holdings : k = row.account_id \o "_" \o row.fund_code}
    IN  IF found = {} THEN 0 ELSE HundredthsOfBalance(holdings[CHOOSE k \in found : TRUE])

RequestedBy(row) ==
    IF "amount_or_shares" \in DOMAIN row THEN HundredthsOfText(row.amount_or_shares) ELSE 0

\* C6: insufficient_shares is the number of REDEEM records read whose
\* available shares (zero without a holdings entry) are strictly less than the
\* requested shares; with no broken account link the state is then
\* INSUFFICIENT_HOLDING.
C6_InsufficientCountsShortRedeems ==
    /\ pc = "trade_loop" =>
         insufficient_shares =
             Cardinality({i \in DOMAIN trade_rows :
                             /\ trade_rows[i].type = "REDEEM"
                             /\ AvailableFor(trade_rows[i]) < RequestedBy(trade_rows[i])})
    /\ (pc = "done" /\ insufficient_shares > 0 /\ invalid_acc_refs = 0)
         => state = "INSUFFICIENT_HOLDING"

\* 1000.00 requested against 500.00 available
C6_Witness ==
    /\ pc = "trade_loop"
    /\ Len(trade_rows) = 1
    /\ LastTrade.type = "REDEEM"
    /\ LastTrade.account_id = SnapAcc
    /\ RequestedBy(LastTrade) = 100000
    /\ AvailableFor(LastTrade) = 50000
    /\ insufficient_shares = 1
    /\ invalid_acc_refs = 0

\* C7: reading a record whose type is not REDEEM leaves insufficient_shares
\* unchanged, whatever its amount and the holdings table.
C7_NonRedeemKeepsInsufficient ==
    [][(TradeWasRead /\ trade_rows'[Len(trade_rows')].type # "REDEEM")
          => insufficient_shares' = insufficient_shares]_vars

\* a purchase of more than the account holds, and no insufficiency counted
C7_Witness ==
    /\ pc = "trade_loop"
    /\ Len(trade_rows) = 1
    /\ LastTrade.type = "PURCHASE"
    /\ AvailableFor(LastTrade) < RequestedBy(LastTrade)
    /\ insufficient_shares = 0

\* the amount of the record is missing or is no number
NonNumericAmount(row) ==
    \/ "amount_or_shares" \notin DOMAIN row
    \/ row.amount_or_shares \in {None, "", "abc"}

NoNegativeBalance == \A k \in DOMAIN holdings : holdings[k].num >= 0

\* C8: with no negative balance in the holdings table, reading a REDEEM record
\* whose amount is missing or is no number leaves insufficient_shares unchanged.
C8_NonNumericRedeemNeverInsufficient ==
    [][(/\ TradeWasRead
        /\ NoNegativeBalance
        /\ trade_rows'[Len(trade_rows')].type = "REDEEM"
        /\ NonNumericAmount(trade_rows'[Len(trade_rows')]))
          => insufficient_shares' = insufficient_shares]_vars

C8_Witness ==
    /\ pc = "trade_loop"
    /\ Len(trade_rows) = 1
    /\ NoNegativeBalance
    /\ LastTrade.type = "REDEEM"
    /\ "amount_or_shares" \in DOMAIN LastTrade
    /\ LastTrade.amount_or_shares = "abc"
    /\ LastTrade.account_id = BadAcc
    /\ insufficient_shares = 0

-----------------------------------------------------------------------------
(* The account closure *)

\* C9: the closure used by validate_trades contains the account snapshot, and
\* no step removes an identifier from the new-accounts set or from the closure.
C9_ClosureContainsSnapshotAndGrows ==
    /\ [](pc \in {"trade_loop", "status", "done"} /\ inbox_exists
            => (accounts \subseteq all_valid_accounts /\ new_accounts \subseteq all_valid_accounts))
    /\ [][new_accounts \subseteq new_accounts' /\ Closure \subseteq Closure']_vars

C9_Witness ==
    /\ pc = "trade_loop"
    /\ accounts = {SnapAcc}
    /\ Cardinality(new_accounts) = 2
    /\ all_valid_accounts = accounts \cup new_accounts

\* the identifiers the target system assigns to the identity numbers of the fixtures
DerivedRef(x) ==
    CASE x = GoldenIdNo -> "TA1530933444"
      [] x = OtherIdNo -> "TA1606394731"
      [] OTHER -> "TA0"

\* C10 as claimed: every record read with business code "001" has its derived
\* identifier in the new-accounts set, also with an empty or missing identity
\* number.
C10_EveryOpenRecordAdded ==
    pc = "process_new_accounts" =>
        \A i \in DOMAIN acc_rows :
            acc_rows[i].biz_code = "001" => DerivedRef(acc_rows[i].id_no) \in new_accounts

\* C10 amended: every record read with business code "001" and a present,
\* non-empty identity number has its derived identifier in the new-accounts
\* set, whatever its request number and investor name.
C10_OpenRecordWithIdAdded ==
    pc = "process_new_accounts" =>
        \A i \in DOMAIN acc_rows :
            (acc_rows[i].biz_code = "001" /\ acc_rows[i].id_no \notin {None, ""})
                => DerivedRef(acc_rows[i].id_no) \in new_accounts

C10_Witness ==
    /\ pc = "process_new_accounts"
    /\ Len(acc_rows) = 2
    /\ acc_rows[1].biz_code = "001" /\ acc_rows[1].id_no = OtherIdNo
    /\ acc_rows[1].investor_name = ""
    /\ acc_rows[2].biz_code = "001" /\ acc_rows[2].id_no = ""
    /\ new_accounts = {"TA1606394731"}

-----------------------------------------------------------------------------
(* Opening requests, the transaction count, the declared intent *)

\* process_new_accounts has just read one more record
AccWasRead == pc = "process_new_accounts" /\ Len(acc_rows') = Len(acc_rows) + 1

\* C11: reading a record whose business code is not "001" leaves the
\* new-accounts set unchanged; every member of the new-accounts set is the
\* derived identifier of a record read with business code "001", and every
\* member of the closure used by validate_trades is in the account snapshot or
\* in the new-accounts set.
C11_OnlyOpenRecordsContribute ==
    /\ [](pc = "process_new_accounts" =>
            \A x \in new_accounts :
                \E i \in DOMAIN acc_rows :
                    acc_rows[i].biz_code = "001" /\ DerivedRef(acc_rows[i].id_no) = x)
    /\ [](all_valid_accounts \subseteq accounts \cup new_accounts)
    /\ [][(AccWasRead /\ acc_rows'[Len(acc_rows')].biz_code # "001")
            => new_accounts' = new_accounts]_vars
    /\ [][new_accounts' # new_accounts => AccWasRead]_vars

\* a close record with an identity number, then an opening record
C11_Witness ==
    /\ pc = "process_new_accounts"
    /\ Len(acc_rows) = 2
    /\ acc_rows[1].biz_code = "002" /\ acc_rows[1].id_no = GoldenIdNo
    /\ acc_rows[2].biz_code = "001" /\ acc_rows[2].id_no = OtherIdNo
    /\ new_accounts = {"TA1606394731"}

\* C12: total_txns is the number of transaction records read, whatever the
\* account check and the sufficiency check say of each record, and 0 for a
\* case without inbox.
C12_TotalTxnsCountsEveryRecord ==
    /\ pc = "trade_loop" => total_txns = Len(trade_rows)
    /\ pc \in {"process_new_accounts", "validate_trades"} => total_txns = 0
    /\ (pc \in {"status", "done"} /\ ~inbox_exists) => total_txns = 0

\* a record of an unknown account with a malformed amount, then a redemption
\* of more than the account holds
C12_Witness ==
    /\ pc = "trade_loop"
    /\ Len(trade_rows) = 2
    /\ trade_rows[1].account_id = BadAcc
    /\ NonNumericAmount(trade_rows[1])
    /\ trade_rows[2].type = "REDEEM"
    /\ invalid_acc_refs = 1
    /\ insufficient_shares = 1
    /\ total_txns = 2

LowerCase ==
    [c \in CharsOf("ABCDEFGHIJKLMNOPQRSTUVWXYZ") |->
        CharAt("abcdefghijklmnopqrstuvwxyz", IndexOf("ABCDEFGHIJKLMNOPQRSTUVWXYZ", c))]

RECURSIVE Lower(_)
Lower(str) ==
    IF str = "" THEN ""
    ELSE LET c == CharAt(str, 1)
         IN  (IF c \in DOMAIN LowerCase THEN LowerCase[c] ELSE c) \o Lower(Tail(str))

\* the vocabulary of negative intent
Vocabulary ==
    {"reject", "fail", "negative", "insufficient", "duplicate", "missing",
     "not_found", "abnormal", "conflict", "closed"}

\* a vocabulary word occurs in the text, letters compared without case
MentionsVocabulary(text) ==
    LET low == Lower(text)
    IN  \E w \in Vocabulary :
            \E i \in 1..(Len(low) - Len(w) + 1) : SubSeq(low, i, i + Len(w) - 1) = w

\* the text of a field of meta.json, empty when the field is absent
TextField(m, key) ==
    IF key \in DOMAIN m.val /\ m.val[key] # None THEN m.val[key] ELSE ""

\* C13: an analyzer whose construction returned is declared negative if and
\* only if the case identifier, the description or the expected keyword
\* mentions a vocabulary word.
C13_NegativeIffVocabularyMatch ==
    is_negative_case <=>
        \/ MentionsVocabulary(case_id)
        \/ MentionsVocabulary(TextField(meta, "description"))
        \/ MentionsVocabulary(TextField(meta, "expected_keyword"))

\* only the expected keyword matches, in lower case
C13_Witness ==
    /\ pc = "done"
    /\ is_negative_case
    /\ ~MentionsVocabulary(case_id)
    /\ ~MentionsVocabulary(TextField(meta, "description"))
    /\ TextField(meta, "expected_keyword") = "rejected"

-----------------------------------------------------------------------------
(* Missing and malformed artifacts *)

\* C14 as claimed: no case directory makes the batch run raise; every
\* discovered case gets its row and the run reaches the summary.
C14_NoArtifactAbortsRun == pc # "raised"

\* the construction of the second analyzer raised: one row printed, no summary
C14_Witness ==
    /\ pc = "raised"
    /\ processed = 1
    /\ processed < num_cases
    /\ out_total = -1

\* the row of the case directory at hand has been printed
CasePrinted == pc \in {"loop", "done"} /\ processed >= 1

\* the artifact is absent, is no JSON, or has an entry that is no object
AccountsArtifactBad(file) ==
    \/ ~file.exists
    \/ ~file.well_formed
    \/ \E i \in DOMAIN file.data : ~file.data[i].obj

\* the same, or an entry whose availableShares is no number
HoldingsArtifactBad(file) ==
    \/ AccountsArtifactBad(file)
    \/ \E i \in DOMAIN file.data :
          /\ "availableShares" \in DOMAIN file.data[i].val
          /\ file.data[i].val.availableShares \in {None, "", "n/a"}

\* C15 as claimed: the collection loaded from a snapshot artifact that is
\* missing or malformed, also in a later entry only, is empty.
C15_BadSnapshotLoadsEmpty ==
    CasePrinted =>
        /\ AccountsArtifactBad(tree[processed].accounts_file) => accounts = {}
        /\ HoldingsArtifactBad(tree[processed].holdings_file) => holdings = EmptyDict

\* the entries before the malformed one were kept
C15_Witness ==
    /\ CasePrinted
    /\ tree[processed].case_id = "TC_005_REDEEM"
    /\ accounts = {SnapAcc}
    /\ DOMAIN holdings = {"TA10001_FUND01"}
    /\ state = "CONSISTENT"

\* the artifact is absent or is no JSON: the loader falls back to an empty collection
DegradedLoad(file) == ~file.exists \/ ~file.well_formed

HasDegradedLoad(dir) == DegradedLoad(dir.accounts_file) \/ DegradedLoad(dir.holdings_file)

\* the case directory with an empty snapshot artifact in place of each degraded one
GenuinelyEmpty(dir) ==
    [dir EXCEPT !.accounts_file = IF DegradedLoad(@) THEN JsonFile(<<>>) ELSE @,
                !.holdings_file = IF DegradedLoad(@) THEN JsonFile(<<>>) ELSE @]

\* the row a run prints for an analyzer
RowOfAnalyzer(self) ==
    LoopBodyTail(self, [tp |-> 0, tn |-> 0, fp |-> 0, fn |-> 0, verdict |-> ""],
                 get_consistency_status(self.invalid_acc_refs, self.insufficient_shares),
                 IF self.is_negative_case THEN "NEG" ELSE "POS").row

\* the row a run prints for a case directory whose analysis returns
RowForListing(dir, l) == RowOfAnalyzer(AnalyzeCase(dir, l, l).self)

RowFor(dir) == RowForListing(dir, CHOOSE x \in Listings(dir.inbox) : TRUE)

\* C16 as claimed: the report tells a case with a degraded load from the same
\* case with a genuinely empty artifact: the rows printed for the two differ.
C16_DegradedLoadDistinguishable ==
    \A k \in 1..Len(report.rows) :
        HasDegradedLoad(tree[k]) => report.rows[k] # RowFor(GenuinelyEmpty(tree[k]))

\* Accounts.json is no JSON and Holdings.json is absent, and the row is the
\* row of a case with two empty snapshot files
C16_Witness ==
    /\ Len(report.rows) >= 1
    /\ tree[1].case_id = "TC_004_NO_TRADES"
    /\ ~tree[1].accounts_file.well_formed
    /\ ~tree[1].holdings_file.exists
    /\ report.rows[1] = RowFor(GenuinelyEmpty(tree[1]))
    /\ DOMAIN report.rows[1] =
           {"case_id", "intent", "total_txns", "invalid_acc_refs", "insufficient_shares",
            "state", "verdict"}

-----------------------------------------------------------------------------
(* The signed minimum *)

\* the word 0x80000000: -2^31 read as a signed 32-bit integer
SignedMinimum == <<0, 0, 0, 128>>

\* C17 as claimed: when the rolling hash of the identity string is the signed
\* minimum, the deriver does not return the identifier built from 2147483648.
C17_MinHashIsFlagged ==
    (hash_pc = "done" /\ RefHash(id_no) = SignedMinimum) => acc_id # "TA2147483648"

\* the identifier returned for a string whose hash is the signed minimum
C17_Witness ==
    /\ hash_pc = "done"
    /\ id_no = "polygenelubricants"
    /\ h = <<HalfLimb, 0>>
    /\ acc_id = "TA2147483648"

-----------------------------------------------------------------------------
(* Runs over a fixture tree *)

\* no trade file of the case directory holds a record
NoTransactionRecords(dir) ==
    \/ ~dir.inbox_exists
    \/ \A n \in DOMAIN dir.inbox : IsTradeFile(n) => dir.inbox[n].data = <<>>

\* C18: a case without transaction records has total_txns = 0 and state
\* CONSISTENT, whatever its snapshot and its opening requests hold; if no text
\* field mentions a vocabulary word, its row says POS and OK (True Pos).
C18_NoTransactionsIsConsistent ==
    (CasePrinted /\ NoTransactionRecords(tree[processed])) =>
        /\ total_txns = 0
        /\ state = "CONSISTENT"
        /\ report.rows[processed].state = "CONSISTENT"
        /\ (/\ ~MentionsVocabulary(case_id)
            /\ ~MentionsVocabulary(TextField(meta, "description"))
            /\ ~MentionsVocabulary(TextField(meta, "expected_keyword")))
              => (/\ report.rows[processed].intent = "POS"
                  /\ report.rows[processed].verdict = "OK (True Pos)"
                  /\ tp >= 1)

\* an inbox with an opening request and an empty trade file, no readable snapshot
C18_Witness ==
    /\ CasePrinted
    /\ tree[processed].inbox_exists
    /\ NoTransactionRecords(tree[processed])
    /\ new_accounts # {}
    /\ accounts = {}
    /\ state = "CONSISTENT"
    /\ verdict = "OK (True Pos)"

\* C19: the second run over the tree prints what the first run printed, row
\* by row and in the summary, whatever the order in which the names of an
\* inbox are listed in either run.
C19_SecondRunPrintsTheSame ==
    run = 2 =>
        /\ Len(report.rows) <= Len(prev_report.rows)
        /\ report.rows = SubSeq(prev_report.rows, 1, Len(report.rows))
        /\ pc \in {"done", "raised"} => report = prev_report

\* two runs over a tree whose first case has two trade files with different records
C19_Witness ==
    /\ run = 2
    /\ pc = "done"
    /\ Len(report.rows) = 2
    /\ report = prev_report
    /\ Cardinality({n \in DOMAIN tree[1].inbox : IsTradeFile(n)}) = 2
    /\ report.rows[1].total_txns = 2
    /\ report.rows[1].invalid_acc_refs = 1

\* C20: no step of a run changes a file of the fixture tree.
C20_FixtureTreeUnchanged == [][tree' = tree]_vars

\* both runs are over, and the tree holds what the first case held at the start
C20_Witness ==
    /\ run = 2
    /\ pc = "done"
    /\ processed = Len(tree)
    /\ Len(tree) >= 1
    /\ tree[1] = CaseDirs[1]

-----------------------------------------------------------------------------
(* The batch as a whole: rows, records, phases *)

\* C21: every row a run has printed is the row of its own case directory
\* alone, whichever directories stand before or after it in the tree and
\* whatever the class counters were when it was computed; the class counters
\* are the one thing that carries over, one count per case printed.
C21_RowDependsOnOwnFixtureOnly ==
    /\ \A k \in 1..Len(report.rows) : report.rows[k] = RowFor(tree[k])
    /\ pc \in {"loop", "done"} => tp + tn + fp + fn = processed

\* the second row of a run was printed after a case that had two transactions
\* and a broken link, and shows none of them
C21_Witness ==
    /\ run = 1
    /\ Len(report.rows) = 2
    /\ report.rows[1].total_txns = 2
    /\ report.rows[1].invalid_acc_refs = 1
    /\ report.rows[2].total_txns = 0
    /\ report.rows[2].invalid_acc_refs = 0
    /\ tp + tn + fp + fn = 2

\* C22 as claimed: the results collection of analyze_all holds one record for
\* every case whose row has been printed.
C22_ResultsHoldOneRecordPerCase ==
    pc \in {"loop", "done"} => Len(results) = processed

\* the summary of a batch of two cases is printed and results is still empty
C22_Witness ==
    /\ pc = "done"
    /\ processed = 2
    /\ out_total = 2
    /\ results = <<>>

\* C24 as claimed: a batch run goes on until the summary is printed; a run
\* that can take no further step has printed it.
C24_RunReachesSummary == pc = "done" \/ ENABLED Next

\* the construction of the first analyzer of two raised: the run is over, no
\* row and no summary printed
C24_Witness ==
    /\ pc = "raised"
    /\ processed = 0
    /\ num_cases = 2
    /\ out_total = -1
    /\ ~ENABLED Next

\* the steps of the program counter that follow the order load, closure,
\* validate, classify, for one analyzer and for the loop of the batch
PhaseOrder ==
    {<<"loop", "process_new_accounts">>, <<"loop", "raised">>, <<"loop", "done">>,
     <<"process_new_accounts", "validate_trades">>,
     <<"validate_trades", "trade_loop">>, <<"validate_trades", "status">>,
     <<"trade_loop", "status">>, <<"status", "done">>,
     <<"validate_trades", "classify">>, <<"classify", "loop">>}

C28_BothChecksApplyAndCountersBounded ==
    /\ [](/\ 0 <= invalid_acc_refs /\ invalid_acc_refs <= total_txns
          /\ 0 <= insufficient_shares /\ insufficient_shares <= total_txns)
    /\ [][(/\ TradeWasRead
           /\ trade_rows'[Len(trade_rows')].type = "REDEEM"
           /\ RequestedBy(trade_rows'[Len(trade_rows')]) > 0
           /\ trade_rows'[Len(trade_rows')].account_id \notin all_valid_accounts
           /\ HoldingKey(trade_rows'[Len(trade_rows')].account_id,
                         trade_rows'[Len(trade_rows')].fund_code) \notin DOMAIN holdings)
             => /\ invalid_acc_refs' = invalid_acc_refs + 1
                /\ insufficient_shares' = insufficient_shares + 1
                /\ total_txns' = total_txns + 1]_vars

\* one REDEEM of 1000.00 by an account that exists nowhere: both counters are 1
C28_Witness ==
    /\ pc = "trade_loop"
    /\ Len(trade_rows) = 1
    /\ LastTrade.type = "REDEEM"
    /\ LastTrade.account_id = BadAcc
    /\ BadAcc \notin all_valid_accounts
    /\ HoldingKey(BadAcc, LastTrade.fund_code) \notin DOMAIN holdings
    /\ RequestedBy(LastTrade) = 100000
    /\ total_txns = 1
    /\ invalid_acc_refs = 1
    /\ insufficient_shares = 1

-----------------------------------------------------------------------------
(* Holdings keys and the names of the inbox *)

\* the entries of a holdings artifact for exactly the pair (a, f)
ExactEntries(file, a, f) ==
    {i \in DOMAIN file.data :
        /\ file.data[i].obj
        /\ Get(file.data[i].val, "accountId", None) = a
        /\ Get(file.data[i].val, "fundCode", None) = f}

\* the balance the artifact gives for exactly the pair (a, f), zero without an entry
ExactBalance(file, a, f) ==
    IF ~file.exists \/ ~file.well_formed \/ ExactEntries(file, a, f) = {} THEN FloatZero
    ELSE LET last == CHOOSE i \in ExactEntries(file, a, f) :
                         \A j \in ExactEntries(file, a, f) : j <= i
         IN  ParseFloat(Get(file.data[last].val, "availableShares", "0")).val

\* of a sequence of transaction records, the REDEEM records that ask for more
\* than the artifact gives for exactly their (account, fund)
ShortOfExactBalance(file, rows) ==
    {i \in DOMAIN rows :
        /\ Get(rows[i], "type", None) = "REDEEM"
        /\ FloatLess(ExactBalance(file, Get(rows[i], "account_id", None),
                                  Get(rows[i], "fund_code", None)),
                     AmountOf(rows[i]))}

\* the transaction records validate_trades reads in a case directory
TradeRecordsOf(dir) ==
    TradeFileRows(dir.inbox, CHOOSE l \in Listings(dir.inbox) : TRUE, 1)

\* C26 as claimed: the balance a REDEEM is compared with is that of the
\* holdings entry for exactly its (account, fund), zero without such an entry;
\* so for a case whose holdings artifact loads whole, insufficient_shares is
\* the number of REDEEM records that ask for more than that balance.
C26_BalanceIsOfExactPair ==
    (CasePrinted /\ ~HoldingsArtifactBad(tree[processed].holdings_file)) =>
        insufficient_shares =
            Cardinality(ShortOfExactBalance(tree[processed].holdings_file,
                                            TradeRecordsOf(tree[processed])))

\* TA10001 redeems 1000.00 of A_FUND01, of which it holds nothing, and is
\* served from the entry of TA10001_A for FUND01
C26_Witness ==
    /\ CasePrinted
    /\ tree[processed].case_id = "TC_008_REDEEM"
    /\ DOMAIN holdings = {"TA10001_A_FUND01"}
    /\ ExactEntries(tree[processed].holdings_file, SnapAcc, "A_FUND01") = {}
    /\ total_txns = 1
    /\ insufficient_shares = 0
    /\ state = "CONSISTENT"

\* the records of the files of an inbox whose name holds the word and ends
\* in .csv, in the order of a listing
RECURSIVE RecordsOfFilesNamed(_, _, _, _)
RecordsOfFilesNamed(inbox, listing, i, word) ==
    IF i > Len(listing) THEN <<>>
    ELSE (IF Contains(listing[i], word) /\ EndsWith(listing[i], ".csv")
          THEN inbox[listing[i]].data ELSE <<>>)
             \o RecordsOfFilesNamed(inbox, listing, i + 1, word)

RecordsNamed(dir, word) ==
    RecordsOfFilesNamed(dir.inbox, CHOOSE l \in Listings(dir.inbox) : TRUE, 1, word)

\* C27 as claimed: every record of every inbox file named *TRADE*.csv is
\* counted in total_txns, and every opening of every file named *ACC*.csv
\* that carries an identity document is in new_accounts.
C27_EveryMatchingFileScanned ==
    CasePrinted =>
        /\ total_txns = Len(RecordsNamed(tree[processed], "TRADE"))
        /\ \A i \in DOMAIN RecordsNamed(tree[processed], "ACC") :
             LET row == RecordsNamed(tree[processed], "ACC")[i]
             IN  (row.biz_code = "001" /\ row.id_no \notin {"", None})
                     => generate_acc_id(row.id_no) \in new_accounts

\* the one record of DIST_B_TRADE_FUND01_20250101.csv was not counted
C27_Witness ==
    /\ CasePrinted
    /\ tree[processed].case_id = "TC_006_closed_account"
    /\ Len(RecordsNamed(tree[processed], "TRADE")) = 1
    /\ total_txns = 0
    /\ invalid_acc_refs = 0

-----------------------------------------------------------------------------
(* The identifier deriver over many calls *)

\* C23: two calls of generate_acc_id with the same identity document return
\* the same identifier, whatever calls came between them and whichever case
\* made them.
C23_SameDocumentSameIdentifier ==
    \A i, j \in DOMAIN calls : calls[i][1] = calls[j][1] => calls[i][2] = calls[j][2]

\* the sample document was derived first and third, with another document
\* between, from two different cases
C23_Witness ==
    /\ Len(calls) = 3
    /\ calls[1][1] = GoldenIdNo
    /\ calls[2][1] = OtherIdNo
    /\ calls[3][1] = GoldenIdNo
    /\ calls[1][2] = "TA1530933444"
    /\ calls[3][2] = "TA1530933444"
    /\ calls[2][2] # calls[1][2]
    /\ case_id = "TC_002_insufficient_redeem"

-----------------------------------------------------------------------------
(* verify_all *)

PassCount(res) == Cardinality({i \in DOMAIN res : res[i].status = "PASS"})

\* C29 as claimed: between two cases there is exactly one result for every
\* case handled so far, with one of the four statuses; a case is recorded as
\* STUCK only after 30 polls, none of which saw the container gone, and with
\* docker stop run for it before the next case; and the Passed number of the
\* summary is the number of PASS results.
C29_OneResultPerCaseAndPassedCountsPass ==
    /\ verify_pc \in {"load", "done"} =>
         /\ Len(verify_results) = case_index
         /\ \A i \in DOMAIN verify_results :
              /\ verify_results[i].case = i
              /\ verify_results[i].status \in VerifyStatuses
              /\ verify_results[i].status = "STUCK" => i \in stopped
         /\ ~container_up \/ verify_results[case_index].status # "STUCK"
    /\ (verify_pc = "polled" /\ status = "STUCK") => polls = MaxPolls
    /\ (verify_pc = "polled" /\ status = "PASS") => ~container_up
    /\ verify_pc = "done" =>
         /\ case_index = test_cases
         /\ summary_out[1] = test_cases
         /\ summary_out[2] = PassCount(verify_results)

\* two cases, the first failed to load and the second passed: Passed: 2
C29_Witness ==
    /\ verify_pc = "done"
    /\ Len(verify_results) = 2
    /\ verify_results[1].status = "LOAD_ERROR"
    /\ verify_results[2].status = "PASS"
    /\ summary_out = <<2, 2, 0>>
    /\ PassCount(verify_results) = 1

====
